---------------------------- MODULE Spec2Model ----------------------------
(***************************************************************************)
(* A model of Melo's JSON-RPC 2.0 layer (src/src/lib/melo_jsonrpc.c): the  *)
(* method registry (a GHashTable guarded by one mutex), the single-call    *)
(* request processor melo_jsonrpc_parse_node, the top-level dispatcher     *)
(* melo_jsonrpc_parse_request, the response / error builders and the       *)
(* parameter validator melo_jsonrpc_get_json_node.                         *)
(*                                                                         *)
(* JSON values are records [t, s, n]: t is the node type, s the string     *)
(* payload, n the integer payload.  C pointers that may be NULL are        *)
(* records with an isNull field.  Threads advance between the points at    *)
(* which they synchronise on melo_jsonrpc_mutex; everything a thread does  *)
(* between two such points touches only its own locals and is one step.    *)
(***************************************************************************)
EXTENDS Integers, Sequences, FiniteSets, TLC

(***************************************************************************)
(* Bounds of the model.                                                    *)
(***************************************************************************)
\* Longest batch array handed to melo_jsonrpc_parse_request.
MaxBatch == 2
\* Longest methods[] array handed to melo_jsonrpc_unregister_methods.
MaxCount == 2
\* Number of JsonArray schema objects that can be alive at once.
NumSchemas == 2
\* Largest reference count a schema object is taken to.
MaxRefs == 3
\* Longest parameter schema and longest positional params array.
MaxSchema == 2

Threads == {"t1", "t2"}
NoThread == "none"

Groups == {"a"}
Methods == {"x", "y"}

(***************************************************************************)
(* JSON nodes.                                                             *)
(***************************************************************************)
JAbsent == [t |-> "absent", s |-> "", n |-> 0]
JNull == [t |-> "null", s |-> "", n |-> 0]
JStr(str) == [t |-> "string", s |-> str, n |-> 0]
JInt(i) == [t |-> "int", s |-> "", n |-> i]
JArray == [t |-> "array", s |-> "", n |-> 0]
JObject == [t |-> "object", s |-> "", n |-> 0]

\* const gchar * values: NULL or a string.
NullStr == [isNull |-> TRUE, s |-> ""]
Str(x) == [isNull |-> FALSE, s |-> x]

\* json_object_has_member
json_object_has_member(member) == member.t # "absent"

\* json_object_get_string_member: the string of a string node, NULL otherwise.
json_object_get_string_member(member) ==
    IF member.t = "string" THEN Str(member.s) ELSE NullStr

\* json_object_get_int_member: the integer of an integer node, 0 for a
\* string node, a null node or a missing member.
json_object_get_int_member(member) ==
    IF member.t = "int" THEN member.n ELSE 0

(***************************************************************************)
(* MeloJSONRPCError                                                        *)
(***************************************************************************)
MELO_JSONRPC_ERROR_PARSE_ERROR == -32700
MELO_JSONRPC_ERROR_INVALID_REQUEST == -32600
MELO_JSONRPC_ERROR_METHOD_NOT_FOUND == -32601
MELO_JSONRPC_ERROR_INVALID_PARAMS == -32602
MELO_JSONRPC_ERROR_INTERNAL_ERROR == -32603

(***************************************************************************)
(* Error / response builders.  A JsonNode * is NullNode or a node.         *)
(***************************************************************************)
NullNode == [isNull |-> TRUE, code |-> 0, message |-> "", v |-> JAbsent]
\* An error object {code, message}.
ErrorNode(c, msg) == [isNull |-> FALSE, code |-> c, message |-> msg, v |-> JObject]
\* Any other node, used for results.
ValueNode(val) == [isNull |-> FALSE, code |-> 0, message |-> "", v |-> val]

melo_jsonrpc_build_error_nodev(error_code, error_format) ==
    ErrorNode(error_code, error_format)

\* json_builder_add_string_value with a NULL string adds a null node.
json_builder_add_string_value(id) ==
    IF id.isNull THEN JNull ELSE JStr(id.s)

\* Mutation: the result takes precedence over the error.
melo_jsonrpc_build_response_node_result_first(result, error, id, nid) ==
    [isNull |-> FALSE,
     jsonrpc |-> "2.0",
     hasError |-> result.isNull /\ ~error.isNull,
     error |-> IF result.isNull THEN error ELSE NullNode,
     hasResult |-> ~result.isNull,
     result |-> result,
     id |-> IF nid < 0 \/ ~id.isNull
            THEN json_builder_add_string_value(id)
            ELSE JInt(nid)]

melo_jsonrpc_build_response_node(result, error, id, nid) ==
    [isNull |-> FALSE,
     jsonrpc |-> "2.0",
     hasError |-> ~error.isNull,
     error |-> error,
     hasResult |-> error.isNull /\ ~result.isNull,
     result |-> IF error.isNull THEN result ELSE NullNode,
     id |-> IF nid < 0 \/ ~id.isNull
            THEN json_builder_add_string_value(id)
            ELSE JInt(nid)]

melo_jsonrpc_build_error(id, nid, error_code, error_format) ==
    melo_jsonrpc_build_response_node(
        NullNode, melo_jsonrpc_build_error_nodev(error_code, error_format),
        id, nid)

\* The returned gchar *: NULL, or the text of one envelope or of an array of
\* envelopes (melo_jsonrpc_node_to_string keeps the structure of the node).
NoOutput == [isNull |-> TRUE, isArray |-> FALSE, items |-> <<>>]
SingleOutput(resp) == [isNull |-> FALSE, isArray |-> FALSE, items |-> <<resp>>]
ArrayOutput(resps) == [isNull |-> FALSE, isArray |-> TRUE, items |-> resps]

melo_jsonrpc_build_error_str(error_code, error_format) ==
    SingleOutput(melo_jsonrpc_build_response_node(
        NullNode, melo_jsonrpc_build_error_nodev(error_code, error_format),
        NullStr, -1))


(***************************************************************************)
(* Requests.  The text handed to melo_jsonrpc_parse_request is modelled by *)
(* what json_parser_load_from_data makes of it: root is "malformed" (no    *)
(* valid JSON), "empty" (no JSON value: the root node is NULL), "object",  *)
(* "array" (elems are its elements) or "scalar" (any other root node).     *)
(* A call object has the members jsonrpc, method, params and id; obj is    *)
(* FALSE for an array element that is not an object.                       *)
(***************************************************************************)
Call(j, m, p, i) == [obj |-> TRUE, jsonrpc |-> j, method |-> m, params |-> p, id |-> i]
NotObject == [obj |-> FALSE, jsonrpc |-> JAbsent, method |-> JAbsent,
              params |-> JAbsent, id |-> JAbsent]

CompleteNames == {g \o "." \o m : g \in Groups, m \in Methods}

Ids == {JAbsent, JStr("x"), JInt(-1), JInt(0), JInt(1), JNull}

\* Calls whose envelope is accepted.
WellFormedCalls ==
    {Call(JStr("2.0"), JStr(m), p, i) :
        m \in CompleteNames, p \in {JAbsent, JArray, JObject}, i \in Ids}

\* Values with one defect of the envelope each, without and with an id.
BrokenCalls ==
    {NotObject} \cup
    UNION {{Call(JAbsent, JStr("a.x"), JArray, i),
            Call(JStr("1.0"), JStr("a.x"), JArray, i),
            Call(JInt(2), JStr("a.x"), JArray, i),
            Call(JStr("2.0"), JAbsent, JArray, i),
            Call(JStr("2.0"), JInt(1), JArray, i),
            Call(JStr("2.0"), JStr("a.x"), JNull, i),
            Call(JStr("2.0"), JStr("a.x"), JInt(1), i)} :
           i \in {JAbsent, JStr("x"), JInt(1)}}

\* The elements batches are built from.
BatchCalls ==
    {Call(JStr("2.0"), JStr("a.x"), JArray, JStr("x")),
     Call(JStr("2.0"), JStr("a.y"), JAbsent, JInt(1)),
     Call(JStr("2.0"), JStr("a.x"), JArray, JAbsent),
     Call(JStr("2.0"), JStr("a.y"), JObject, JAbsent),
     Call(JStr("2.0"), JStr("a.x"), JInt(1), JAbsent),
     NotObject}

SeqsUpTo(S, n) == UNION {[1..k -> S] : k \in 0..n}

Request(root, elems) == [root |-> root, elems |-> elems]

RootOnly == {Request(r, <<>>) : r \in {"malformed", "empty", "scalar"}}

\* Every request of the sequential specification.
AllRequests ==
    RootOnly
    \cup {Request("object", <<c>>) : c \in WellFormedCalls \cup (BrokenCalls \ {NotObject})}
    \cup {Request("array", b) : b \in SeqsUpTo(BatchCalls, MaxBatch)}

\* The requests of the concurrent specification.
SmallRequests ==
    {Request("object", <<Call(JStr("2.0"), JStr("a.x"), JArray, JInt(1))>>),
     Request("object", <<Call(JStr("2.0"), JStr("a.y"), JObject, JAbsent)>>),
     Request("array", <<Call(JStr("2.0"), JStr("a.y"), JAbsent, JAbsent),
                        Call(JStr("2.0"), JStr("a.x"), JArray, JStr("x"))>>)}

(***************************************************************************)
(* Registered methods.  A JsonArray * schema is 0 (NULL) or the number of  *)
(* a schema object; refcount gives each object's reference count, 0 for an *)
(* object that is not allocated.                                           *)
(***************************************************************************)
NoCallback == "NULL"
Schemas == 1..NumSchemas

\* A MeloJSONRPCInternalMethod *, or NULL.
Method(params, callback, user_data) ==
    [isNull |-> FALSE, params |-> params, callback |-> callback,
     user_data |-> user_data]
NoMethod == [isNull |-> TRUE, params |-> 0, callback |-> NoCallback, user_data |-> "NULL"]

\* The registrations of the sequential specification: a callback with a
\* schema, a callback without one, and a registration without a callback.
AllRegistrations ==
    {[withParams |-> TRUE, h |-> [callback |-> "cb1", user_data |-> "u1"]],
     [withParams |-> FALSE, h |-> [callback |-> "cb2", user_data |-> "u2"]],
     [withParams |-> FALSE, h |-> [callback |-> NoCallback, user_data |-> "u1"]]}

\* The registrations of the concurrent specification.
SmallRegistrations ==
    {[withParams |-> TRUE, h |-> [callback |-> "cb1", user_data |-> "u1"]],
     [withParams |-> FALSE, h |-> [callback |-> "cb2", user_data |-> "u2"]]}

\* The methods[] arrays of the sequential and of the concurrent specification.
AllMethodLists == SeqsUpTo(Methods, MaxCount)
SmallMethodLists == {<<"x", "y">>}

\* The GHashTable *: NULL or a table of (key, value) entries.
NullTable == [isNull |-> TRUE, entries |-> {}]
g_hash_table_new_full == [isNull |-> FALSE, entries |-> {}]

Keys(tbl) == {e.key : e \in tbl.entries}

g_hash_table_lookup(tbl, key) ==
    IF key \in Keys(tbl)
    THEN (CHOOSE e \in tbl.entries : e.key = key).m
    ELSE NoMethod

\* g_hash_table_insert replaces the value of a key that is present.
g_hash_table_insert(tbl, key, m) ==
    [tbl EXCEPT !.entries =
        {e \in tbl.entries : e.key # key} \cup {[key |-> key, m |-> m]}]

g_hash_table_remove(tbl, key) ==
    [tbl EXCEPT !.entries = {e \in tbl.entries : e.key # key}]

(***************************************************************************)
(* Parameter validator: melo_jsonrpc_add_node, melo_jsonrpc_get_json_node, *)
(* melo_jsonrpc_check_params, melo_jsonrpc_get_object and                  *)
(* melo_jsonrpc_get_array.                                                 *)
(*                                                                         *)
(* A parameter value is a value node (bool, int, double, string, null) or  *)
(* an object / array node with a payload that tells two of them apart.     *)
(* The params handed to the validator are NULL, an object (members: the    *)
(* node of each name of ParamNames, JAbsent for a name without member), an *)
(* array (elems) or a value node.  A schema is NULL or the sequence of its *)
(* elements; an element is an object with the members name, type and       *)
(* required.                                                               *)
(***************************************************************************)
JBool(b) == [t |-> "bool", s |-> "", n |-> IF b THEN 1 ELSE 0]
JDouble(d) == [t |-> "double", s |-> "", n |-> d]
JObjectOf(v) == [t |-> "object", s |-> v, n |-> 0]
JArrayOf(v) == [t |-> "array", s |-> v, n |-> 0]

ParamNames == {"a", "b"}

ParamsNull == [t |-> "NULL", members |-> [name \in ParamNames |-> JAbsent],
               elems |-> <<>>]
ParamsObject(members) == [t |-> "object", members |-> members, elems |-> <<>>]
ParamsArray(elems) ==
    [t |-> "array", members |-> [name \in ParamNames |-> JAbsent], elems |-> elems]
ParamsValue(node) ==
    [t |-> node.t, members |-> [name \in ParamNames |-> JAbsent], elems |-> <<>>]

SchemaEntry(name, type, required) ==
    [name |-> name, type |-> type, required |-> required]
NullSchema == [isNull |-> TRUE, entries |-> <<>>]
Schema(entries) == [isNull |-> FALSE, entries |-> entries]

\* The JsonObject * obj and JsonArray * array the converted values go to.
NullObject == [isNull |-> TRUE, members |-> [name \in ParamNames |-> JAbsent]]
json_object_new == [isNull |-> FALSE, members |-> [name \in ParamNames |-> JAbsent]]
NullArray == [isNull |-> TRUE, elems |-> <<>>]
json_array_sized_new == [isNull |-> FALSE, elems |-> <<>>]

\* The caller's JsonNode **error: no slot (a NULL pointer), or a slot that
\* holds NULL or an error.
NoSlot == [given |-> FALSE, node |-> NullNode]
Slot(node) == [given |-> TRUE, node |-> node]

\* s_type[0]: the first letter of the type strings of the model.
FirstLetter(s_type) ==
    CASE s_type = "bool" -> "b"
      [] s_type = "int" -> "i"
      [] s_type = "double" -> "d"
      [] s_type = "string" -> "s"
      [] s_type = "object" -> "o"
      [] s_type = "array" -> "a"
      [] OTHER -> "?"

\* The node type / value type the switch of melo_jsonrpc_add_node asks for.
TypeOfLetter(letter) ==
    CASE letter = "b" -> "bool"
      [] letter = "i" -> "int"
      [] letter = "d" -> "double"
      [] letter = "s" -> "string"
      [] letter = "o" -> "object"
      [] letter = "a" -> "array"
      [] OTHER -> "none"

\* json_object_get_member (o, name)
json_object_get_member(o, name) ==
    IF name \in ParamNames THEN o.members[name] ELSE JAbsent

\* json_node_get_boolean: FALSE for a node that holds no boolean.
json_node_get_boolean(node) == node.t = "bool" /\ node.n = 1

\* Mutation: the member is not stored.
json_object_set_member_none(obj, s_name, node) == obj

\* json_object_set_*_member (obj, s_name, v)
json_object_set_member(obj, s_name, node) ==
    IF s_name \in ParamNames
    THEN [obj EXCEPT !.members[s_name] = node]
    ELSE obj

\* Mutation: an integer is taken where a double is declared.
melo_jsonrpc_add_node_coerce(node, schema, obj, array) ==
    LET s_name == json_object_get_string_member(schema.name)
        s_type == json_object_get_string_member(schema.type)
        wanted == TypeOfLetter(FirstLetter(s_type.s))
    IN IF s_name.isNull \/ s_type.isNull
       THEN [ok |-> FALSE, obj |-> obj, array |-> array]
       ELSE IF node.t # wanted /\ ~(node.t = "int" /\ wanted = "double")
       THEN [ok |-> FALSE, obj |-> obj, array |-> array]
       ELSE IF ~obj.isNull
       THEN [ok |-> TRUE, obj |-> json_object_set_member(obj, s_name.s, node),
             array |-> array]
       ELSE IF ~array.isNull
       THEN [ok |-> TRUE, obj |-> obj,
             array |-> [array EXCEPT !.elems = Append(@, node)]]
       ELSE [ok |-> TRUE, obj |-> obj, array |-> array]

\* melo_jsonrpc_add_node: whether the node has the type of the schema
\* element, and obj and array after the value is added to the one given.
melo_jsonrpc_add_node(node, schema, obj, array) ==
    LET s_name == json_object_get_string_member(schema.name)
        s_type == json_object_get_string_member(schema.type)
    IN IF s_name.isNull \/ s_type.isNull
       THEN [ok |-> FALSE, obj |-> obj, array |-> array]
       ELSE IF node.t # TypeOfLetter(FirstLetter(s_type.s))
       THEN [ok |-> FALSE, obj |-> obj, array |-> array]
       ELSE IF ~obj.isNull
       THEN [ok |-> TRUE, obj |-> json_object_set_member(obj, s_name.s, node),
             array |-> array]
       ELSE IF ~array.isNull
       THEN [ok |-> TRUE, obj |-> obj,
             array |-> [array EXCEPT !.elems = Append(@, node)]]
       ELSE [ok |-> TRUE, obj |-> obj, array |-> array]

\* Mutation: a required flag that is not given counts as FALSE.
IsRequired_default_false(schema) ==
    json_node_get_boolean(schema.required)

\* !node || json_node_get_boolean (node) for the required member.
IsRequired(schema) ==
    \/ schema.required.t = "absent"
    \/ json_node_get_boolean(schema.required)

\* How a walk ends: the return value, the label failed taken or not, obj and
\* array, and the loop index at the exit (count + 1: the loop ran to its end).
WalkEnd(r, failed, obj, array, k) ==
    [ret |-> r, failed |-> failed, obj |-> obj, array |-> array, last |-> k]

\* Mutation: the conversion to an object stops and the one to an array skips.
WhenNotRequired_swapped(obj, array) ==
    IF ~obj.isNull THEN "return"
    ELSE IF ~array.isNull THEN "continue"
    ELSE "add_node"

\* What the loop over keyed params does with a member that is missing and
\* not required: `continue` when converting to an object, `return TRUE` when
\* converting to an array, and on to melo_jsonrpc_add_node otherwise.
WhenNotRequired(obj, array) ==
    IF ~obj.isNull THEN "continue"
    ELSE IF ~array.isNull THEN "return"
    ELSE "add_node"

\* The loop over the schema for params that is an object, from index k on.
RECURSIVE WalkObject(_, _, _, _, _)
WalkObject(schema_params, o, obj, array, k) ==
    IF k > Len(schema_params.entries) THEN WalkEnd(TRUE, FALSE, obj, array, k)
    ELSE
    LET schema == schema_params.entries[k]
        name == json_object_get_string_member(schema.name)
        member == IF name.isNull THEN JAbsent
                  ELSE json_object_get_member(o, name.s)
        \* The node handed to melo_jsonrpc_add_node: for a member that is
        \* missing, node has been set to the required member of the schema.
        node == IF member.t = "absent" THEN schema.required ELSE member
        added == melo_jsonrpc_add_node(node, schema, obj, array)
    IN IF name.isNull THEN WalkEnd(FALSE, TRUE, obj, array, k)
       ELSE IF member.t = "absent" /\ IsRequired(schema)
       THEN WalkEnd(FALSE, TRUE, obj, array, k)
       ELSE IF member.t = "absent" /\ WhenNotRequired(obj, array) = "continue"
       THEN WalkObject(schema_params, o, obj, array, k + 1)
       ELSE IF member.t = "absent" /\ WhenNotRequired(obj, array) = "return"
       THEN WalkEnd(TRUE, FALSE, obj, array, k)
       ELSE IF ~added.ok THEN WalkEnd(FALSE, TRUE, obj, array, k)
       ELSE WalkObject(schema_params, o, added.obj, added.array, k + 1)

\* Mutation: an optional entry without positional value is skipped and the
\* walk goes on with the next entry.
RECURSIVE WalkArray_no_stop(_, _, _, _, _)
WalkArray_no_stop(schema_params, a, obj, array, k) ==
    IF k > Len(schema_params.entries) THEN WalkEnd(TRUE, FALSE, obj, array, k)
    ELSE
    LET schema == schema_params.entries[k]
        added == melo_jsonrpc_add_node(a[k], schema, obj, array)
    IN IF k > Len(a)
       THEN IF IsRequired(schema)
            THEN WalkEnd(FALSE, TRUE, obj, array, k)
            ELSE WalkArray_no_stop(schema_params, a, obj, array, k + 1)
       ELSE IF ~added.ok THEN WalkEnd(FALSE, TRUE, obj, array, k)
       ELSE WalkArray_no_stop(schema_params, a, added.obj, added.array, k + 1)

\* The loop over the schema for params that is an array, from index k on.
RECURSIVE WalkArray(_, _, _, _, _)
WalkArray(schema_params, a, obj, array, k) ==
    IF k > Len(schema_params.entries) THEN WalkEnd(TRUE, FALSE, obj, array, k)
    ELSE
    LET schema == schema_params.entries[k]
        added == melo_jsonrpc_add_node(a[k], schema, obj, array)
    IN IF k > Len(a)
       THEN IF IsRequired(schema)
            THEN WalkEnd(FALSE, TRUE, obj, array, k)
            ELSE WalkEnd(TRUE, FALSE, obj, array, k)
       ELSE IF ~added.ok THEN WalkEnd(FALSE, TRUE, obj, array, k)
       ELSE WalkArray(schema_params, a, added.obj, added.array, k + 1)

\* if (error && *error == NULL) *error = melo_jsonrpc_build_error_node (...)
SetError(error, code, message) ==
    IF error.given /\ error.node.isNull
    THEN Slot(melo_jsonrpc_build_error_nodev(code, message))
    ELSE error

\* melo_jsonrpc_get_json_node: the return value, obj and array, the error
\* slot after the call and the loop index at the exit (0: no loop was run).
melo_jsonrpc_get_json_node(schema_params, params, obj, array, error) ==
    IF schema_params.isNull
    THEN [ret |-> FALSE, obj |-> obj, array |-> array, error |-> error, last |-> 0]
    ELSE IF params.t = "NULL"
    THEN [ret |-> FALSE, obj |-> obj, array |-> array,
          error |-> SetError(error, MELO_JSONRPC_ERROR_INVALID_REQUEST,
                             "Invalid request"),
          last |-> 0]
    ELSE IF params.t \notin {"object", "array"}
    THEN [ret |-> TRUE, obj |-> obj, array |-> array, error |-> error, last |-> 0]
    ELSE
    LET w == IF params.t = "object"
             THEN WalkObject(schema_params, params, obj, array, 1)
             ELSE WalkArray(schema_params, params.elems, obj, array, 1)
    IN [ret |-> w.ret, obj |-> w.obj, array |-> w.array,
        error |-> IF w.failed
                  THEN SetError(error, MELO_JSONRPC_ERROR_INVALID_PARAMS,
                                "Invalid params")
                  ELSE error,
        last |-> w.last]

\* What a validator call leaves: the value returned (ret, and the object or
\* array for the conversions, NULL on failure), the error slot and the loop
\* index at the exit.
melo_jsonrpc_check_params(schema_params, params, error) ==
    LET r == melo_jsonrpc_get_json_node(schema_params, params, NullObject,
                                        NullArray, error)
    IN [ret |-> r.ret, obj |-> NullObject, array |-> NullArray,
        error |-> r.error, last |-> r.last]

melo_jsonrpc_get_object(schema_params, params, error) ==
    LET r == melo_jsonrpc_get_json_node(schema_params, params, json_object_new,
                                        NullArray, error)
    IN [ret |-> r.ret, obj |-> IF r.ret THEN r.obj ELSE NullObject,
        array |-> NullArray, error |-> r.error, last |-> r.last]

melo_jsonrpc_get_array(schema_params, params, error) ==
    LET r == melo_jsonrpc_get_json_node(schema_params, params, NullObject,
                                        json_array_sized_new, error)
    IN [ret |-> r.ret, obj |-> NullObject,
        array |-> IF r.ret THEN r.array ELSE NullArray,
        error |-> r.error, last |-> r.last]

\* The inputs of the validator specification.  Values of every wire type
\* for keyed params, the value types for positional params.
KeyedValues ==
    {JBool(TRUE), JInt(1), JDouble(1), JStr("s"), JObjectOf("o"), JArrayOf("r"),
     JNull}
PositionalValues == {JBool(TRUE), JInt(1), JDouble(1), JStr("s"), JNull}

\* Schema elements: every declared type, with the required flag TRUE, FALSE
\* and not given, under two names.
SchemaEntries ==
    {SchemaEntry(JStr("a"), JStr("int"), JAbsent),
     SchemaEntry(JStr("a"), JStr("double"), JBool(FALSE)),
     SchemaEntry(JStr("b"), JStr("bool"), JBool(FALSE)),
     SchemaEntry(JStr("b"), JStr("string"), JBool(TRUE)),
     SchemaEntry(JStr("a"), JStr("object"), JBool(FALSE)),
     SchemaEntry(JStr("b"), JStr("array"), JAbsent),
     SchemaEntry(JStr("b"), JStr("int"), JBool(FALSE)),
     SchemaEntry(JStr("a"), JStr("string"), JBool(FALSE))}

ValidatorSchemas ==
    {NullSchema} \cup {Schema(e) : e \in SeqsUpTo(SchemaEntries, MaxSchema)}

ValidatorParams ==
    {ParamsNull, ParamsValue(JInt(1))}
    \cup {ParamsObject(m) : m \in [ParamNames -> KeyedValues \cup {JAbsent}]}
    \cup {ParamsArray(e) : e \in SeqsUpTo(PositionalValues, MaxSchema)}

\* The error slot is empty, or holds an error of an earlier call.
ErrorSlots ==
    {Slot(NullNode),
     Slot(ErrorNode(MELO_JSONRPC_ERROR_INTERNAL_ERROR, "Internal error"))}

\* A validator call that has not been made.
NotCalled ==
    [ret |-> FALSE, obj |-> NullObject, array |-> NullArray, error |-> NoSlot,
     last |-> 0]

VARIABLES
    melo_jsonrpc_methods,   \* the GHashTable * of registered methods
    melo_jsonrpc_mutex,     \* the thread holding the lock, or NoThread
    refcount,               \* reference count of each schema object
    pc,                     \* where each thread is
    op,                     \* the operation each thread is in or has last left
    regArgs,                \* melo_jsonrpc_register_method: complete_method, m
    ret,                    \* its return value
    todo,                   \* unregister: the complete names and the loop index
    req,                    \* melo_jsonrpc_parse_request: the parsed request
    i,                      \* index of the element being processed
    res,                    \* responses collected so far (res_array)
    cur,                    \* melo_jsonrpc_parse_node: the method looked up
    out,                    \* the string melo_jsonrpc_parse_request returned
    calls,                  \* callback invocations of the request, in order
    lookups,                \* number of registry lookups of the request
    critical,               \* a GHashTable function was given a NULL table
    crashed,                \* the process was aborted
    many,                   \* melo_jsonrpc_register_methods: methods, i, errors
    schemaIn,               \* the validator's schema_params argument
    paramsIn,               \* its params argument
    errorIn,                \* its error argument: the caller's error slot
    vpc,                    \* the validator call that comes next
    checkOut,               \* what melo_jsonrpc_check_params returned
    objectOut,              \* what melo_jsonrpc_get_object returned
    arrayOut                \* what melo_jsonrpc_get_array returned

\* The variables of the registry and of the request processor.
jsonrpcVars == <<melo_jsonrpc_methods, melo_jsonrpc_mutex, refcount, pc, op, regArgs,
                 ret, todo, req, i, res, cur, out, calls, lookups, critical,
                 crashed, many>>

\* The variables of the parameter validator.
validatorVars == <<schemaIn, paramsIn, errorIn, vpc, checkOut, objectOut, arrayOut>>

vars == <<jsonrpcVars, validatorVars>>

registryVars == <<melo_jsonrpc_methods, refcount>>
registerVars == <<regArgs, ret, many>>
requestVars == <<req, i, res, cur, out, calls, lookups>>

NoArgs == [complete_method |-> "", m |-> NoMethod]
NoTodo == [names |-> <<>>, k |-> 0]
NoMany == [group |-> "", methods |-> <<>>, k |-> 0, errors |-> 0]
NoRequest == Request("none", <<>>)
NoResponse ==
    [isNull |-> TRUE, jsonrpc |-> "", hasError |-> FALSE, error |-> NullNode,
     hasResult |-> FALSE, result |-> NullNode, id |-> JAbsent]

\* No validator call is made in the specifications of the registry.
InitNoValidator ==
    /\ schemaIn = NullSchema
    /\ paramsIn = ParamsNull
    /\ errorIn = NoSlot
    /\ vpc = "none"
    /\ checkOut = NotCalled
    /\ objectOut = NotCalled
    /\ arrayOut = NotCalled

InitRegistry ==
    /\ melo_jsonrpc_methods = NullTable
    /\ melo_jsonrpc_mutex = NoThread
    /\ refcount = [s \in Schemas |-> 0]
    /\ pc = [t \in Threads |-> "idle"]
    /\ op = [t \in Threads |-> "none"]
    /\ regArgs = [t \in Threads |-> NoArgs]
    /\ ret = [t \in Threads |-> FALSE]
    /\ todo = [t \in Threads |-> NoTodo]
    /\ req = [t \in Threads |-> NoRequest]
    /\ i = [t \in Threads |-> 0]
    /\ res = [t \in Threads |-> <<>>]
    /\ cur = [t \in Threads |-> NoMethod]
    /\ out = [t \in Threads |-> NoOutput]
    /\ calls = [t \in Threads |-> <<>>]
    /\ lookups = [t \in Threads |-> 0]
    /\ critical = [t \in Threads |-> FALSE]
    /\ crashed = FALSE
    /\ many = [t \in Threads |-> NoMany]

Init == InitRegistry /\ InitNoValidator

(***************************************************************************)
(* melo_jsonrpc_register_method                                            *)
(***************************************************************************)
\* Mutation: the reference is not taken.
json_array_ref_none(rc, s) == rc

json_array_ref(rc, s) == IF s = 0 THEN rc ELSE [rc EXCEPT ![s] = @ + 1]
json_array_unref(rc, s) == IF s = 0 THEN rc ELSE [rc EXCEPT ![s] = @ - 1]

\* json_node_dup_array: the caller's reference to a schema it has parsed.
json_node_dup_array(rc, s) == IF s = 0 THEN rc ELSE [rc EXCEPT ![s] = 1]

\* The lowest schema object that is not allocated.
FreeSchema(rc) ==
    CHOOSE s \in Schemas :
        /\ rc[s] = 0
        /\ \A s2 \in Schemas : rc[s2] = 0 => s <= s2

\* Mutation: the lock is handed out while another thread holds it.
G_LOCK_free(t) == TRUE

\* G_LOCK (melo_jsonrpc_mutex) by thread t returns when no thread holds the
\* lock.
G_LOCK(t) == melo_jsonrpc_mutex = NoThread

\* Mutation: melo_jsonrpc_parse_node keeps the lock after its lookup.
G_UNLOCK_keep(t) == IF pc[t] = "lookup_locked" THEN t ELSE NoThread

\* G_UNLOCK (melo_jsonrpc_mutex) by thread t: the holder afterwards.
G_UNLOCK(t) == NoThread

\* Where a register or unregister call returns to: the callback that made
\* the call during a dispatch, or the application.
AfterCall(t) == IF op[t] = "parse_request" THEN "callback_after" ELSE "returned"

\* The caller builds the schema (or passes NULL) and calls; the complete
\* method name is built before the lock is requested.
RegisterCall(t, group, method, withParams, h) ==
    /\ ~crashed
    /\ pc[t] = "idle"
    /\ withParams => \E s \in Schemas : refcount[s] = 0
    /\ LET params == IF withParams THEN FreeSchema(refcount) ELSE 0
       IN /\ refcount' = json_node_dup_array(refcount, params)
          /\ regArgs' = [regArgs EXCEPT ![t] =
                [complete_method |-> group \o "." \o method,
                 m |-> Method(params, h.callback, h.user_data)]]
    /\ pc' = [pc EXCEPT ![t] = "register_lock"]
    /\ op' = [op EXCEPT ![t] = "register"]
    /\ UNCHANGED validatorVars
    /\ UNCHANGED <<melo_jsonrpc_methods, melo_jsonrpc_mutex, ret, many, todo,
                   requestVars, critical, crashed>>

\* G_LOCK (melo_jsonrpc_mutex)
RegisterLock(t) ==
    /\ ~crashed
    /\ pc[t] = "register_lock"
    /\ G_LOCK(t)
    /\ melo_jsonrpc_mutex' = t
    /\ pc' = [pc EXCEPT ![t] = "register_locked"]
    /\ UNCHANGED validatorVars
    /\ UNCHANGED <<registryVars, op, registerVars, todo, requestVars, critical, crashed>>

\* Mutation: insert without looking the name up first.
register_method_no_lookup(tbl, complete_method, m) ==
    LET table == IF tbl.isNull THEN g_hash_table_new_full ELSE tbl
    IN [table |-> g_hash_table_insert(table, complete_method, m), ret |-> TRUE]

\* Mutation: no table is created; registering without one fails.
register_method_no_create(tbl, complete_method, m) ==
    IF tbl.isNull \/ ~g_hash_table_lookup(tbl, complete_method).isNull
    THEN [table |-> tbl, ret |-> FALSE]
    ELSE [table |-> g_hash_table_insert(tbl, complete_method, m), ret |-> TRUE]

\* The body of melo_jsonrpc_register_method under the lock: the new table
\* and the return value.
register_method(tbl, complete_method, m) ==
    LET table == IF tbl.isNull THEN g_hash_table_new_full ELSE tbl
    IN IF ~g_hash_table_lookup(table, complete_method).isNull
       THEN [table |-> table, ret |-> FALSE]
       ELSE [table |-> g_hash_table_insert(table, complete_method, m),
             ret |-> TRUE]

\* The locked section, G_UNLOCK and the return.  A caller whose registration
\* failed still owns its schema and drops it; melo_jsonrpc_register_methods
\* counts the failure and goes to its next entry.
RegisterBody(t) ==
    /\ ~crashed
    /\ pc[t] = "register_locked"
    /\ melo_jsonrpc_mutex = t
    /\ LET r == register_method(melo_jsonrpc_methods,
                                regArgs[t].complete_method, regArgs[t].m)
       IN /\ melo_jsonrpc_methods' = r.table
          /\ ret' = [ret EXCEPT ![t] = r.ret]
          /\ refcount' = IF r.ret THEN refcount
                         ELSE json_array_unref(refcount, regArgs[t].m.params)
          /\ IF op[t] = "register_methods"
             THEN /\ pc' = [pc EXCEPT ![t] = "register_methods"]
                  /\ many' = [many EXCEPT ![t].k = @ + 1,
                                          ![t].errors = IF r.ret THEN @ ELSE @ + 1]
             ELSE /\ pc' = [pc EXCEPT ![t] = AfterCall(t)]
                  /\ many' = many
    /\ melo_jsonrpc_mutex' = G_UNLOCK(t)
    /\ UNCHANGED validatorVars
    /\ UNCHANGED <<op, regArgs, todo, requestVars, critical, crashed>>

(***************************************************************************)
(* melo_jsonrpc_register_methods.  A MeloJSONRPCMethod has the texts of    *)
(* its params and result schemas; a text is modelled by what               *)
(* json_parser_load_from_data makes of it: "malformed" (the load fails),   *)
(* "array" or "object" (the type of the root node).                        *)
(***************************************************************************)
MeloJSONRPCMethod(method, params, result, callback, user_data) ==
    [method |-> method, params |-> params, result |-> result,
     callback |-> callback, user_data |-> user_data]

\* The methods[] entries of the specification of melo_jsonrpc_register_methods.
MethodEntries ==
    {MeloJSONRPCMethod("x", "array", "object", "cb1", "u1"),
     MeloJSONRPCMethod("x", "malformed", "object", "cb1", "u1"),
     MeloJSONRPCMethod("x", "object", "object", "cb1", "u1"),
     MeloJSONRPCMethod("x", "array", "array", "cb1", "u1"),
     MeloJSONRPCMethod("y", "array", "malformed", "cb2", "u2"),
     MeloJSONRPCMethod("y", "malformed", "malformed", "cb2", "u2"),
     MeloJSONRPCMethod("y", "object", "malformed", "cb2", "u2"),
     MeloJSONRPCMethod("y", "malformed", "array", "cb2", "u2")}

MethodArrays == SeqsUpTo(MethodEntries, MaxCount)

\* One pass of the loop body up to the call of melo_jsonrpc_register_method:
\* whether a `continue` is taken, and whether params has been built by then.
register_methods_entry(entry) ==
    IF entry.params = "object"
    THEN [skip |-> TRUE, params |-> FALSE]
    ELSE IF entry.result = "array"
    THEN [skip |-> TRUE, params |-> entry.params = "array"]
    ELSE [skip |-> FALSE, params |-> entry.params = "array"]

RegisterMethodsCall(t, group, methods) ==
    /\ ~crashed
    /\ pc[t] = "idle"
    /\ many' = [many EXCEPT ![t] =
                  [group |-> group, methods |-> methods, k |-> 1, errors |-> 0]]
    /\ pc' = [pc EXCEPT ![t] = "register_methods"]
    /\ op' = [op EXCEPT ![t] = "register_methods"]
    /\ UNCHANGED validatorVars
    /\ UNCHANGED <<registryVars, melo_jsonrpc_mutex, regArgs, ret, todo, requestVars,
                   critical, crashed>>

\* The loop of melo_jsonrpc_register_methods at entry many[t].k: the end of
\* the loop, a `continue`, or the call of melo_jsonrpc_register_method up
\* to its G_LOCK.
RegisterMethodsLoop(t) ==
    /\ ~crashed
    /\ pc[t] = "register_methods"
    /\ IF many[t].k > Len(many[t].methods)
       THEN /\ pc' = [pc EXCEPT ![t] = "returned"]
            /\ UNCHANGED <<refcount, regArgs, many>>
       ELSE LET entry == many[t].methods[many[t].k]
                e == register_methods_entry(entry)
                params == IF e.params THEN FreeSchema(refcount) ELSE 0
            IN /\ e.params => \E s \in Schemas : refcount[s] = 0
               /\ refcount' = json_node_dup_array(refcount, params)
               /\ IF e.skip
                  THEN /\ many' = [many EXCEPT ![t].k = @ + 1]
                       /\ UNCHANGED <<pc, regArgs>>
                  ELSE /\ regArgs' = [regArgs EXCEPT ![t] =
                             [complete_method |-> many[t].group \o "." \o entry.method,
                              m |-> Method(params, entry.callback, entry.user_data)]]
                       /\ pc' = [pc EXCEPT ![t] = "register_lock"]
                       /\ many' = many
    /\ UNCHANGED validatorVars
    /\ UNCHANGED <<melo_jsonrpc_methods, melo_jsonrpc_mutex, op, ret, todo,
                   requestVars, critical, crashed>>

(***************************************************************************)
(* melo_jsonrpc_unregister_method, melo_jsonrpc_unregister_methods         *)
(***************************************************************************)
UnregisterCall(t, group, method) ==
    /\ ~crashed
    /\ pc[t] = "idle"
    /\ todo' = [todo EXCEPT ![t] = [names |-> <<group \o "." \o method>>, k |-> 1]]
    /\ pc' = [pc EXCEPT ![t] = "unregister_lock"]
    /\ op' = [op EXCEPT ![t] = "unregister"]
    /\ UNCHANGED validatorVars
    /\ UNCHANGED <<registryVars, melo_jsonrpc_mutex, registerVars, requestVars,
                   critical, crashed>>

\* The loop of melo_jsonrpc_unregister_methods calls
\* melo_jsonrpc_unregister_method for methods[0], methods[1], ...
UnregisterMethodsCall(t, group, methods) ==
    /\ ~crashed
    /\ pc[t] = "idle"
    /\ todo' = [todo EXCEPT ![t] =
                  [names |-> [j \in 1..Len(methods) |-> group \o "." \o methods[j]],
                   k |-> 1]]
    /\ pc' = [pc EXCEPT ![t] =
                  IF Len(methods) = 0 THEN "returned" ELSE "unregister_lock"]
    /\ op' = [op EXCEPT ![t] = "unregister_methods"]
    /\ UNCHANGED validatorVars
    /\ UNCHANGED <<registryVars, melo_jsonrpc_mutex, registerVars, requestVars,
                   critical, crashed>>

UnregisterLock(t) ==
    /\ ~crashed
    /\ pc[t] = "unregister_lock"
    /\ G_LOCK(t)
    /\ melo_jsonrpc_mutex' = t
    /\ pc' = [pc EXCEPT ![t] = "unregister_locked"]
    /\ UNCHANGED validatorVars
    /\ UNCHANGED <<registryVars, op, registerVars, todo, requestVars, critical, crashed>>

\* Mutation: the entry is left in the table.
unregister_method_keep(tbl, complete_method) ==
    [table |-> IF tbl.entries = {} THEN NullTable ELSE tbl,
     freed |-> {},
     onNull |-> tbl.isNull]

\* Mutation: the table is kept when its last entry has been removed.
unregister_method_no_teardown(tbl, complete_method) ==
    LET removed == g_hash_table_remove(tbl, complete_method)
    IN [table |-> removed,
        freed |-> {e.m : e \in tbl.entries \ removed.entries},
        onNull |-> tbl.isNull]

\* The body of melo_jsonrpc_unregister_method under the lock: the new table,
\* the values melo_jsonrpc_free_method was called on, and whether the
\* GHashTable functions were called on a NULL table.
unregister_method(tbl, complete_method) ==
    LET removed == g_hash_table_remove(tbl, complete_method)
    IN [table |-> IF removed.entries = {} THEN NullTable ELSE removed,
        freed |-> {e.m : e \in tbl.entries \ removed.entries},
        onNull |-> tbl.isNull]

RECURSIVE UnrefAll(_, _)
UnrefAll(rc, ms) ==
    IF ms = {} THEN rc
    ELSE LET m == CHOOSE x \in ms : TRUE
         IN UnrefAll(json_array_unref(rc, m.params), ms \ {m})

\* The locked section, G_UNLOCK and the return of one
\* melo_jsonrpc_unregister_method call.  g_hash_table_remove, _size and
\* _unref on a NULL table each fail their precondition check: the call
\* logs a critical warning and returns (this action), or the process is
\* aborted (UnregisterAbort).
UnregisterBody(t) ==
    /\ ~crashed
    /\ pc[t] = "unregister_locked"
    /\ melo_jsonrpc_mutex = t
    /\ LET r == unregister_method(melo_jsonrpc_methods, todo[t].names[todo[t].k])
       IN /\ melo_jsonrpc_methods' = r.table
          /\ refcount' = UnrefAll(refcount, r.freed)
          /\ critical' = [critical EXCEPT ![t] = @ \/ r.onNull]
    /\ melo_jsonrpc_mutex' = G_UNLOCK(t)
    /\ todo' = [todo EXCEPT ![t].k = @ + 1]
    /\ pc' = [pc EXCEPT ![t] =
                 IF todo[t].k < Len(todo[t].names) THEN "unregister_lock"
                 ELSE AfterCall(t)]
    /\ UNCHANGED validatorVars
    /\ UNCHANGED <<op, registerVars, requestVars, crashed>>

UnregisterAbort(t) ==
    /\ ~crashed
    /\ pc[t] = "unregister_locked"
    /\ melo_jsonrpc_mutex = t
    /\ unregister_method(melo_jsonrpc_methods, todo[t].names[todo[t].k]).onNull
    /\ critical' = [critical EXCEPT ![t] = TRUE]
    /\ crashed' = TRUE
    /\ UNCHANGED validatorVars
    /\ UNCHANGED <<registryVars, melo_jsonrpc_mutex, pc, op, registerVars, todo,
                   requestVars>>

(***************************************************************************)
(* melo_jsonrpc_parse_node                                                 *)
(***************************************************************************)
\* Mutation: the type of params is not checked.
EnvelopeAccepted_any_params(node) ==
    /\ node.obj
    /\ json_object_get_string_member(node.jsonrpc) = Str("2.0")
    /\ ~json_object_get_string_member(node.method).isNull

\* The checks of the envelope that lead to the label invalid when they fail.
EnvelopeAccepted(node) ==
    /\ node.obj
    /\ json_object_has_member(node.jsonrpc)
    /\ json_object_get_string_member(node.jsonrpc) = Str("2.0")
    /\ json_object_has_member(node.method)
    /\ ~json_object_get_string_member(node.method).isNull
    /\ json_object_has_member(node.params) => node.params.t \in {"array", "object"}

\* Mutation: the new response is put in front of the array.
json_array_add_element_front(array, node) == <<node>> \o array

\* Mutation: the new response replaces the ones collected so far.
json_array_add_element_only(array, node) == <<node>>

\* json_array_add_element (res_array, node), done when node is not NULL.
json_array_add_element(array, node) == Append(array, node)

\* Mutation: a batch without responses is returned as an empty array.
parse_request_output_keep_empty(isObject, node, array) ==
    IF isObject
    THEN IF node.isNull THEN NoOutput ELSE SingleOutput(node)
    ELSE ArrayOutput(array)

\* What melo_jsonrpc_parse_request returns once every element is processed:
\* node is the response of the last element, array the filled res_array.
parse_request_output(isObject, node, array) ==
    IF isObject
    THEN IF node.isNull THEN NoOutput ELSE SingleOutput(node)
    ELSE IF Len(array) = 0 THEN NoOutput ELSE ArrayOutput(array)

\* melo_jsonrpc_parse_node returns node for element i[t]: the loop of
\* melo_jsonrpc_parse_request goes to the next element, or the request ends.
NodeReturns(t, node) ==
    LET array == IF node.isNull THEN res[t]
                 ELSE json_array_add_element(res[t], node)
    IN /\ res' = [res EXCEPT ![t] = array]
       /\ IF i[t] < Len(req[t].elems)
          THEN /\ i' = [i EXCEPT ![t] = @ + 1]
               /\ pc' = [pc EXCEPT ![t] = "parse_node"]
               /\ out' = out
          ELSE /\ i' = i
               /\ pc' = [pc EXCEPT ![t] = "returned"]
               /\ out' = [out EXCEPT ![t] =
                     parse_request_output(req[t].root = "object", node, array)]

\* Entry of melo_jsonrpc_parse_node up to G_LOCK.
ParseNode(t) ==
    /\ ~crashed
    /\ pc[t] = "parse_node"
    /\ LET node == req[t].elems[i[t]]
       IN IF EnvelopeAccepted(node)
          THEN /\ pc' = [pc EXCEPT ![t] = "lookup_lock"]
               /\ UNCHANGED <<i, res, out>>
          ELSE NodeReturns(t, melo_jsonrpc_build_error(NullStr, -1,
                     MELO_JSONRPC_ERROR_INVALID_REQUEST, "Invalid request"))
    /\ UNCHANGED validatorVars
    /\ UNCHANGED <<registryVars, melo_jsonrpc_mutex, op, registerVars, todo, req,
                   cur, calls, lookups, critical, crashed>>

\* The locked section of melo_jsonrpc_parse_node: callback, user_data and
\* s_params as they are after it (NoMethod: all three NULL).
lookup_method(tbl, method) ==
    IF tbl.isNull THEN NoMethod ELSE g_hash_table_lookup(tbl, method)

\* G_LOCK (melo_jsonrpc_mutex).  The lookup is not started when the reference
\* it takes would exceed MaxRefs.
LookupLock(t) ==
    /\ ~crashed
    /\ pc[t] = "lookup_lock"
    /\ G_LOCK(t)
    /\ LET m == lookup_method(melo_jsonrpc_methods, req[t].elems[i[t]].method.s)
       IN m.params # 0 => refcount[m.params] < MaxRefs
    /\ melo_jsonrpc_mutex' = t
    /\ pc' = [pc EXCEPT ![t] = "lookup_locked"]
    /\ UNCHANGED validatorVars
    /\ UNCHANGED <<registryVars, op, registerVars, todo, requestVars, critical, crashed>>

\* Mutation: the callback is handed params only when the request has some.
Invocation_checked(m, node, k) ==
    [callback |-> m.callback, method |-> node.method.s, s_params |-> m.params,
     params |-> IF node.params.t = "absent" THEN JArray ELSE node.params,
     user_data |-> m.user_data, element |-> k]

\* A callback invocation: callback (method, s_params, params, ..., user_data).
Invocation(m, node, k) ==
    [callback |-> m.callback, method |-> node.method.s, s_params |-> m.params,
     params |-> node.params, user_data |-> m.user_data, element |-> k]

\* The locked section (with the reference taken on the schema), G_UNLOCK,
\* and melo_jsonrpc_parse_node up to the return or into the callback.
LookupBody(t) ==
    /\ ~crashed
    /\ pc[t] = "lookup_locked"
    /\ melo_jsonrpc_mutex = t
    /\ melo_jsonrpc_mutex' = G_UNLOCK(t)
    /\ lookups' = [lookups EXCEPT ![t] = @ + 1]
    /\ LET node == req[t].elems[i[t]]
           m == lookup_method(melo_jsonrpc_methods, node.method.s)
           nid == json_object_get_int_member(node.id)
           id == json_object_get_string_member(node.id)
       IN /\ refcount' = json_array_ref(refcount, m.params)
          /\ cur' = [cur EXCEPT ![t] = m]
          /\ IF m.callback # NoCallback
             THEN /\ calls' = [calls EXCEPT ![t] =
                                  Append(@, Invocation(m, node, i[t]))]
                  /\ pc' = [pc EXCEPT ![t] = "callback"]
                  /\ UNCHANGED <<i, res, out>>
             ELSE /\ calls' = calls
                  /\ IF ~json_object_has_member(node.id)
                     THEN NodeReturns(t, NoResponse)
                     ELSE NodeReturns(t, melo_jsonrpc_build_error(id, nid,
                              MELO_JSONRPC_ERROR_METHOD_NOT_FOUND,
                              "Method not found"))
    /\ UNCHANGED validatorVars
    /\ UNCHANGED <<melo_jsonrpc_methods, op, registerVars, todo, req, critical, crashed>>

\* What a callback may leave in *result and *error.
CallbackOutcomes == {"result", "error", "both", "neither"}

CallbackResult(m, outcome) ==
    IF outcome \in {"result", "both"}
    THEN ValueNode(JStr(m.callback \o "(" \o m.user_data \o ")"))
    ELSE NullNode

\* A handler that sets only an error reports Invalid Params; one that sets
\* both (a handler with a bug) reports Internal Error.
CallbackError(m, outcome) ==
    IF outcome = "error"
    THEN ErrorNode(MELO_JSONRPC_ERROR_INVALID_PARAMS, "Invalid params")
    ELSE IF outcome = "both"
    THEN ErrorNode(MELO_JSONRPC_ERROR_INTERNAL_ERROR, "Internal error")
    ELSE NullNode

\* Mutation: a notification is answered like a request.
node_after_callback_answer_all(node, result, error) ==
    LET nid == json_object_get_int_member(node.id)
        id == json_object_get_string_member(node.id)
    IN IF error.isNull /\ result.isNull
       THEN melo_jsonrpc_build_error(id, nid,
                MELO_JSONRPC_ERROR_METHOD_NOT_FOUND, "Method not found")
       ELSE melo_jsonrpc_build_response_node(result, error, id, nid)

\* Mutation: a handler that sets neither result nor error gets no answer.
node_after_callback_silent(node, result, error) ==
    LET nid == json_object_get_int_member(node.id)
        id == json_object_get_string_member(node.id)
    IN IF ~json_object_has_member(node.id) THEN NoResponse
       ELSE IF error.isNull /\ result.isNull THEN NoResponse
       ELSE melo_jsonrpc_build_response_node(result, error, id, nid)

\* What melo_jsonrpc_parse_node returns once the callback has returned.
node_after_callback(node, result, error) ==
    LET nid == json_object_get_int_member(node.id)
        id == json_object_get_string_member(node.id)
    IN IF ~json_object_has_member(node.id) THEN NoResponse
       ELSE IF error.isNull /\ result.isNull
       THEN melo_jsonrpc_build_error(id, nid,
                MELO_JSONRPC_ERROR_METHOD_NOT_FOUND, "Method not found")
       ELSE melo_jsonrpc_build_response_node(result, error, id, nid)

\* The callback calls melo_jsonrpc_register_method: the call runs in the
\* thread of the dispatch, from G_LOCK to its return into the callback.
CallbackRegister(t, group, method, withParams, h) ==
    /\ ~crashed
    /\ pc[t] = "callback"
    /\ withParams => \E s \in Schemas : refcount[s] = 0
    /\ LET params == IF withParams THEN FreeSchema(refcount) ELSE 0
       IN /\ refcount' = json_node_dup_array(refcount, params)
          /\ regArgs' = [regArgs EXCEPT ![t] =
                [complete_method |-> group \o "." \o method,
                 m |-> Method(params, h.callback, h.user_data)]]
    /\ pc' = [pc EXCEPT ![t] = "register_lock"]
    /\ UNCHANGED validatorVars
    /\ UNCHANGED <<melo_jsonrpc_methods, melo_jsonrpc_mutex, op, ret, many, todo,
                   requestVars, critical, crashed>>

\* The callback calls melo_jsonrpc_unregister_method.
CallbackUnregister(t, group, method) ==
    /\ ~crashed
    /\ pc[t] = "callback"
    /\ todo' = [todo EXCEPT ![t] = [names |-> <<group \o "." \o method>>, k |-> 1]]
    /\ pc' = [pc EXCEPT ![t] = "unregister_lock"]
    /\ UNCHANGED validatorVars
    /\ UNCHANGED <<registryVars, melo_jsonrpc_mutex, op, registerVars, requestVars,
                   critical, crashed>>

\* The callback returns: s_params is released and the response built.
CallbackReturn(t, outcome) ==
    /\ ~crashed
    /\ pc[t] \in {"callback", "callback_after"}
    /\ refcount' = json_array_unref(refcount, cur[t].params)
    /\ NodeReturns(t, node_after_callback(req[t].elems[i[t]],
                         CallbackResult(cur[t], outcome),
                         CallbackError(cur[t], outcome)))
    /\ UNCHANGED validatorVars
    /\ UNCHANGED <<melo_jsonrpc_methods, melo_jsonrpc_mutex, op, registerVars, todo,
                   req, cur, calls, lookups, critical, crashed>>

(***************************************************************************)
(* melo_jsonrpc_parse_request                                              *)
(***************************************************************************)
\* Mutation: an empty batch is treated like a batch without responses.
parse_request_early_empty_is_none(request) ==
    IF request.root \in {"malformed", "empty"}
    THEN melo_jsonrpc_build_error_str(MELO_JSONRPC_ERROR_PARSE_ERROR, "Parse error")
    ELSE IF request.root = "array" THEN NoOutput
    ELSE melo_jsonrpc_build_error_str(MELO_JSONRPC_ERROR_INVALID_REQUEST,
                                      "Invalid request")

\* Mutation: text that does not parse is answered with Invalid Request.
parse_request_early_no_parse_error(request) ==
    melo_jsonrpc_build_error_str(MELO_JSONRPC_ERROR_INVALID_REQUEST,
                                 "Invalid request")

\* Mutation: a root that is neither an object nor an array gets no answer.
parse_request_early_scalar_unanswered(request) ==
    IF request.root \in {"malformed", "empty"}
    THEN melo_jsonrpc_build_error_str(MELO_JSONRPC_ERROR_PARSE_ERROR, "Parse error")
    ELSE IF request.root = "scalar" THEN NoOutput
    ELSE melo_jsonrpc_build_error_str(MELO_JSONRPC_ERROR_INVALID_REQUEST,
                                      "Invalid request")

\* The returns of melo_jsonrpc_parse_request that process no element: the
\* labels parse_error and invalid.
parse_request_early(request) ==
    IF request.root \in {"malformed", "empty"}
    THEN melo_jsonrpc_build_error_str(MELO_JSONRPC_ERROR_PARSE_ERROR, "Parse error")
    ELSE melo_jsonrpc_build_error_str(MELO_JSONRPC_ERROR_INVALID_REQUEST,
                                      "Invalid request")

\* Whether the request has elements to hand to melo_jsonrpc_parse_node.
HasElements(request) ==
    \/ request.root = "object"
    \/ request.root = "array" /\ Len(request.elems) > 0

ParseRequest(t, request) ==
    /\ ~crashed
    /\ pc[t] = "idle"
    /\ op' = [op EXCEPT ![t] = "parse_request"]
    /\ req' = [req EXCEPT ![t] = request]
    /\ IF HasElements(request)
       THEN /\ i' = [i EXCEPT ![t] = 1]
            /\ pc' = [pc EXCEPT ![t] = "parse_node"]
            /\ out' = [out EXCEPT ![t] = NoOutput]
       ELSE /\ i' = [i EXCEPT ![t] = 0]
            /\ pc' = [pc EXCEPT ![t] = "returned"]
            /\ out' = [out EXCEPT ![t] = parse_request_early(request)]
    /\ UNCHANGED validatorVars
    /\ UNCHANGED <<registryVars, melo_jsonrpc_mutex, registerVars, todo, res, cur,
                   calls, lookups, critical, crashed>>

\* The caller has taken the value the operation returned: the locals of the
\* call are gone and the thread is free for its next operation.
Return(t) ==
    /\ ~crashed
    /\ pc[t] = "returned"
    /\ pc' = [pc EXCEPT ![t] = "idle"]
    /\ op' = [op EXCEPT ![t] = "none"]
    /\ regArgs' = [regArgs EXCEPT ![t] = NoArgs]
    /\ ret' = [ret EXCEPT ![t] = FALSE]
    /\ many' = [many EXCEPT ![t] = NoMany]
    /\ todo' = [todo EXCEPT ![t] = NoTodo]
    /\ req' = [req EXCEPT ![t] = NoRequest]
    /\ i' = [i EXCEPT ![t] = 0]
    /\ res' = [res EXCEPT ![t] = <<>>]
    /\ cur' = [cur EXCEPT ![t] = NoMethod]
    /\ out' = [out EXCEPT ![t] = NoOutput]
    /\ calls' = [calls EXCEPT ![t] = <<>>]
    /\ lookups' = [lookups EXCEPT ![t] = 0]
    /\ critical' = [critical EXCEPT ![t] = FALSE]
    /\ UNCHANGED validatorVars
    /\ UNCHANGED <<registryVars, melo_jsonrpc_mutex, crashed>>

(***************************************************************************)
(* Specifications.  Spec: every thread registers, unregisters and          *)
(* dispatches.  SpecDispatch: one thread does, with every request of       *)
(* AllRequests.                                                            *)
(***************************************************************************)
RegistryStep(t, registrations, methodLists) ==
    \/ \E g \in Groups, m \in Methods, r \in registrations :
          RegisterCall(t, g, m, r.withParams, r.h)
    \/ RegisterLock(t)
    \/ RegisterBody(t)
    \/ \E g \in Groups, m \in Methods : UnregisterCall(t, g, m)
    \/ \E g \in Groups, ms \in methodLists :
          UnregisterMethodsCall(t, g, ms)
    \/ UnregisterLock(t)
    \/ UnregisterBody(t)
    \/ UnregisterAbort(t)
    \/ Return(t)

DispatchStep(t) ==
    \/ ParseNode(t)
    \/ LookupLock(t)
    \/ LookupBody(t)
    \/ \E o \in CallbackOutcomes : CallbackReturn(t, o)

Next ==
    \E t \in Threads :
        \/ RegistryStep(t, SmallRegistrations, SmallMethodLists)
        \/ \E r \in SmallRequests : ParseRequest(t, r)
        \/ DispatchStep(t)

Spec == Init /\ [][Next]_vars

NextDispatch ==
    \/ RegistryStep("t1", AllRegistrations, AllMethodLists)
    \/ \E r \in AllRequests : ParseRequest("t1", r)
    \/ DispatchStep("t1")

SpecDispatch == Init /\ [][NextDispatch]_vars

(***************************************************************************)
(* SpecSchema: one thread registers methods with a schema, with and        *)
(* without a callback, unregisters and dispatches.                         *)
(***************************************************************************)
SchemaRegistrations ==
    {[withParams |-> TRUE, h |-> [callback |-> "cb1", user_data |-> "u1"]],
     [withParams |-> TRUE, h |-> [callback |-> NoCallback, user_data |-> "u2"]]}

NextSchema ==
    \/ RegistryStep("t1", SchemaRegistrations, SmallMethodLists)
    \/ \E r \in SmallRequests : ParseRequest("t1", r)
    \/ DispatchStep("t1")

SpecSchema == Init /\ [][NextSchema]_vars

(***************************************************************************)
(* SpecFair: two threads register, unregister and call one method under a  *)
(* fair scheduler.  A thread that holds the lock goes on to G_UNLOCK, and a *)
(* thread that waits in G_LOCK gets the lock if it is free again and       *)
(* again.  Nothing makes a callback return or a caller make another call.  *)
(***************************************************************************)
FairRegistration == [callback |-> "cb1", user_data |-> "u1"]

FairRequest ==
    Request("object", <<Call(JStr("2.0"), JStr("a.x"), JArray, JInt(1))>>)

NextFair ==
    \E t \in Threads :
        \/ RegisterCall(t, "a", "x", TRUE, FairRegistration)
        \/ RegisterLock(t)
        \/ RegisterBody(t)
        \/ UnregisterCall(t, "a", "x")
        \/ UnregisterLock(t)
        \/ UnregisterBody(t)
        \/ UnregisterAbort(t)
        \/ ParseRequest(t, FairRequest)
        \/ ParseNode(t)
        \/ LookupLock(t)
        \/ LookupBody(t)
        \/ \E o \in CallbackOutcomes : CallbackReturn(t, o)
        \/ Return(t)

Fairness ==
    \A t \in Threads :
        /\ SF_vars(RegisterLock(t)) /\ WF_vars(RegisterBody(t))
        /\ SF_vars(UnregisterLock(t)) /\ WF_vars(UnregisterBody(t))
        /\ SF_vars(LookupLock(t)) /\ WF_vars(LookupBody(t))

SpecFair == Init /\ [][NextFair]_vars /\ Fairness

(***************************************************************************)
(* SpecCallback: one thread registers, unregisters and dispatches, and a   *)
(* callback may make one register or unregister call before it returns.   *)
(***************************************************************************)
NextCallback ==
    \/ RegistryStep("t1", SmallRegistrations, SmallMethodLists)
    \/ \E r \in SmallRequests : ParseRequest("t1", r)
    \/ DispatchStep("t1")
    \/ \E g \in Groups, m \in Methods, r \in SmallRegistrations :
          CallbackRegister("t1", g, m, r.withParams, r.h)
    \/ \E g \in Groups, m \in Methods : CallbackUnregister("t1", g, m)

SpecCallback == Init /\ [][NextCallback]_vars

(***************************************************************************)
(* SpecRegister: one thread calls melo_jsonrpc_register_methods,           *)
(* unregisters and dispatches.                                             *)
(***************************************************************************)
NextRegister ==
    \/ \E g \in Groups, ms \in MethodArrays : RegisterMethodsCall("t1", g, ms)
    \/ RegisterMethodsLoop("t1")
    \/ RegisterLock("t1")
    \/ RegisterBody("t1")
    \/ \E g \in Groups, m \in Methods : UnregisterCall("t1", g, m)
    \/ UnregisterLock("t1")
    \/ UnregisterBody("t1")
    \/ UnregisterAbort("t1")
    \/ Return("t1")
    \/ \E r \in SmallRequests : ParseRequest("t1", r)
    \/ DispatchStep("t1")

SpecRegister == Init /\ [][NextRegister]_vars

(***************************************************************************)
(* SpecParams: the three validator calls, made one after the other on the  *)
(* same schema and params, each with the caller's error slot as it was.    *)
(***************************************************************************)
InitParams ==
    /\ InitRegistry
    /\ schemaIn \in ValidatorSchemas
    /\ paramsIn \in ValidatorParams
    /\ errorIn \in ErrorSlots
    /\ vpc = "check"
    /\ checkOut = NotCalled
    /\ objectOut = NotCalled
    /\ arrayOut = NotCalled

CheckParams ==
    /\ vpc = "check"
    /\ checkOut' = melo_jsonrpc_check_params(schemaIn, paramsIn, errorIn)
    /\ vpc' = "get_object"
    /\ UNCHANGED <<jsonrpcVars, schemaIn, paramsIn, errorIn, objectOut, arrayOut>>

GetObject ==
    /\ vpc = "get_object"
    /\ objectOut' = melo_jsonrpc_get_object(schemaIn, paramsIn, errorIn)
    /\ vpc' = "get_array"
    /\ UNCHANGED <<jsonrpcVars, schemaIn, paramsIn, errorIn, checkOut, arrayOut>>

GetArray ==
    /\ vpc = "get_array"
    /\ arrayOut' = melo_jsonrpc_get_array(schemaIn, paramsIn, errorIn)
    /\ vpc' = "done"
    /\ UNCHANGED <<jsonrpcVars, schemaIn, paramsIn, errorIn, checkOut, objectOut>>

NextParams == CheckParams \/ GetObject \/ GetArray

SpecParams == InitParams /\ [][NextParams]_vars

(***************************************************************************)
(* Properties.  A thread is at "returned" when its operation has returned  *)
(* and its caller has not yet taken the value.                             *)
(***************************************************************************)
\* melo_jsonrpc_parse_request has returned in thread t.
Dispatched(t) == pc[t] = "returned" /\ op[t] = "parse_request"

\* ... for a request whose root is one object.
DispatchedSingle(t) == Dispatched(t) /\ req[t].root = "object"

\* ... for a request whose root is an array with at least one element.
DispatchedBatch(t) ==
    Dispatched(t) /\ req[t].root = "array" /\ Len(req[t].elems) > 0

\* The envelope of the call is the one JSON-RPC 2.0 asks for, stated on the
\* request alone.
WellFormed(node) ==
    /\ node.obj
    /\ node.jsonrpc = JStr("2.0")
    /\ node.method.t = "string"
    /\ node.params.t \in {"absent", "array", "object"}

HasId(node) == node.obj /\ node.id.t # "absent"
Notification(node) == WellFormed(node) /\ ~HasId(node)

\* The envelope is an error envelope with this code, message and id.
IsError(resp, code, message, id) ==
    /\ ~resp.isNull
    /\ resp.jsonrpc = "2.0"
    /\ resp.hasError /\ ~resp.hasResult
    /\ resp.error.code = code
    /\ resp.error.message = message
    /\ resp.id = id

\* The output is one envelope, not an array, and it is this error.
IsSingleError(o, code, message, id) ==
    /\ ~o.isNull /\ ~o.isArray /\ Len(o.items) = 1
    /\ IsError(o.items[1], code, message, id)

----------------------------------------------------------------------------
\* C1 as stated: every single request object without an id member yields no
\* output, whatever its jsonrpc, method and params members are.
C1_NoIdNoOutput ==
    \A t \in Threads :
        DispatchedSingle(t) /\ ~HasId(req[t].elems[1]) => out[t].isNull

\* C1, amended: a single request object without an id member yields no output
\* when its envelope is well formed (jsonrpc "2.0", method a string, params
\* absent, an array or an object), whether or not the method is registered
\* and whatever the handler produced; when its envelope is not well formed it
\* yields one Invalid Request error with a null id.
C1_NotificationNoOutput ==
    \A t \in Threads :
        DispatchedSingle(t) /\ ~HasId(req[t].elems[1]) =>
            IF WellFormed(req[t].elems[1])
            THEN out[t] = NoOutput
            ELSE IsSingleError(out[t], MELO_JSONRPC_ERROR_INVALID_REQUEST,
                               "Invalid request", JNull)

\* A notification whose handler was invoked has returned without output.
C1_Witness ==
    \E t \in Threads :
        /\ DispatchedSingle(t) /\ Notification(req[t].elems[1])
        /\ Len(calls[t]) = 1
        /\ out[t] = NoOutput

\* C2: the response to a well-formed single request with a string or integer
\* id carries that id, with its type and value.
C2_IdEchoed ==
    \A t \in Threads :
        /\ DispatchedSingle(t) /\ WellFormed(req[t].elems[1])
        /\ req[t].elems[1].id.t \in {"string", "int"}
        => /\ ~out[t].isNull /\ ~out[t].isArray /\ Len(out[t].items) = 1
           /\ out[t].items[1].id = req[t].elems[1].id

\* The elements of a batch that are answered: all but the notifications.
RECURSIVE Answered(_)
Answered(elems) ==
    IF elems = <<>> THEN <<>>
    ELSE IF Notification(Head(elems)) THEN Answered(Tail(elems))
    ELSE <<Head(elems)>> \o Answered(Tail(elems))

\* The envelope answers this element: it carries the id of a well-formed
\* call, and is an Invalid Request error for any other value.
Answers(resp, node) ==
    IF WellFormed(node)
    THEN ~resp.isNull /\ resp.id = node.id
    ELSE IsError(resp, MELO_JSONRPC_ERROR_INVALID_REQUEST, "Invalid request", JNull)

\* C3: the output of a non-empty batch holds one envelope for each element
\* that is not a notification, in the order of these elements in the input,
\* and nothing for the notifications.
C3_BatchOrder ==
    \A t \in Threads :
        DispatchedBatch(t) =>
            LET answered == Answered(req[t].elems)
            IN /\ Len(out[t].items) = Len(answered)
               /\ \A j \in 1..Len(answered) : Answers(out[t].items[j], answered[j])

\* A batch of two answered elements with different ids has returned.
C3_Witness ==
    \E t \in Threads :
        /\ DispatchedBatch(t)
        /\ Len(out[t].items) = 2
        /\ out[t].items[1].id = req[t].elems[1].id
        /\ out[t].items[2].id = req[t].elems[2].id
        /\ out[t].items[1].id # out[t].items[2].id

\* C4: a non-empty batch of notifications only yields no output, not an
\* empty array.
C4_NotificationBatch ==
    \A t \in Threads :
        /\ DispatchedBatch(t)
        /\ \A j \in 1..Len(req[t].elems) : Notification(req[t].elems[j])
        => out[t] = NoOutput

\* A batch of two notifications, both handled by a callback, has returned.
C4_Witness ==
    \E t \in Threads :
        /\ DispatchedBatch(t)
        /\ Len(req[t].elems) = 2
        /\ \A j \in 1..2 : Notification(req[t].elems[j])
        /\ Len(calls[t]) = 2
        /\ out[t] = NoOutput

\* C5: the empty batch yields one Invalid Request envelope with a null id,
\* not an array and not "no response", and no callback is invoked.
C5_EmptyBatch ==
    \A t \in Threads :
        Dispatched(t) /\ req[t].root = "array" /\ Len(req[t].elems) = 0 =>
            /\ IsSingleError(out[t], MELO_JSONRPC_ERROR_INVALID_REQUEST,
                               "Invalid request", JNull)
            /\ calls[t] = <<>>

\* The empty batch has returned while a method with a callback is registered.
C5_Witness ==
    \E t \in Threads :
        /\ Dispatched(t) /\ req[t].root = "array" /\ Len(req[t].elems) = 0
        /\ ~out[t].isNull
        /\ \E e \in melo_jsonrpc_methods.entries : e.m.callback # NoCallback

\* C9: a well-formed single request with a string or integer id for a name
\* that is not registered yields the Method Not Found error with the id of
\* the request, and no callback is invoked.  (One thread: the table at the
\* return is the table of the lookup.)
C9_MethodNotFound ==
    \A t \in Threads :
        /\ DispatchedSingle(t) /\ WellFormed(req[t].elems[1])
        /\ req[t].elems[1].id.t \in {"string", "int"}
        /\ req[t].elems[1].method.s \notin Keys(melo_jsonrpc_methods)
        => /\ IsSingleError(out[t], -32601, "Method not found", req[t].elems[1].id)
           /\ calls[t] = <<>>

\* C10: text that is not valid JSON, or holds no JSON value, yields one Parse
\* Error envelope with a null id; no lookup is made and no callback invoked.
C10_ParseError ==
    \A t \in Threads :
        Dispatched(t) /\ req[t].root \in {"malformed", "empty"} =>
            /\ IsSingleError(out[t], -32700, "Parse error", JNull)
            /\ lookups[t] = 0
            /\ calls[t] = <<>>

\* Malformed text has been answered while methods are registered.
C10_Witness ==
    \E t \in Threads :
        /\ Dispatched(t) /\ req[t].root = "malformed"
        /\ ~out[t].isNull
        /\ melo_jsonrpc_methods.entries # {}

----------------------------------------------------------------------------
\* The step in which melo_jsonrpc_register_method leaves its locked section.
RegisterReturns(t) == pc[t] = "register_locked" /\ pc'[t] # "register_locked"

\* The step in which one melo_jsonrpc_unregister_method call leaves its
\* locked section and returns.
UnregisterReturns(t) ==
    pc[t] = "unregister_locked" /\ pc'[t] # "unregister_locked"

\* The name that call removes.
Unregistered(t) == todo[t].names[todo[t].k]

\* The step in which melo_jsonrpc_parse_node leaves its locked section.
LookupReturns(t) == pc[t] = "lookup_locked" /\ pc'[t] # "lookup_locked"

\* The method name of the call being processed.
Looked(t) == req[t].elems[i[t]].method.s

\* No two entries of the table have the same key.
UniqueKeys(tbl) ==
    \A e1, e2 \in tbl.entries : e1.key = e2.key => e1 = e2

\* C6: a register call for a name that is registered returns FALSE and leaves
\* the table as it is; a callback invoked for a name is the callback, with
\* the user data and the schema, of the entry the table holds for that name;
\* and the table never holds two entries for one name.
C6_DuplicateRegister ==
    [][/\ \A t \in Threads :
            /\ RegisterReturns(t)
            /\ regArgs[t].complete_method \in Keys(melo_jsonrpc_methods)
            => /\ ret'[t] = FALSE
               /\ melo_jsonrpc_methods' = melo_jsonrpc_methods
       /\ \A t \in Threads :
            LookupReturns(t) /\ pc'[t] = "callback" =>
                \E e \in melo_jsonrpc_methods.entries :
                    /\ e.key = Looked(t)
                    /\ calls'[t][Len(calls'[t])].callback = e.m.callback
                    /\ calls'[t][Len(calls'[t])].user_data = e.m.user_data
                    /\ calls'[t][Len(calls'[t])].s_params = e.m.params
       /\ UniqueKeys(melo_jsonrpc_methods')
      ]_vars

\* A register call has returned FALSE and the name is bound to a callback
\* that is not the one of the failed call.
C6_Witness ==
    \E t \in Threads :
        /\ pc[t] = "returned" /\ op[t] = "register" /\ ~ret[t]
        /\ \E e \in melo_jsonrpc_methods.entries :
              /\ e.key = regArgs[t].complete_method
              /\ e.m.callback # regArgs[t].m.callback

\* C7: an unregister call removes its name and no other entry; a name enters
\* the table only by a successful register call for it; and a lookup of a
\* name that is not in the table invokes no callback, answers a call with an
\* id with the Method Not Found error and answers a notification with nothing.
C7_UnregisteredNotFound ==
    [][/\ \A t \in Threads :
            UnregisterReturns(t) =>
                /\ Unregistered(t) \notin Keys(melo_jsonrpc_methods')
                /\ melo_jsonrpc_methods'.entries =
                      {e \in melo_jsonrpc_methods.entries : e.key # Unregistered(t)}
       /\ \A n \in Keys(melo_jsonrpc_methods') \ Keys(melo_jsonrpc_methods) :
            \E t \in Threads :
                /\ RegisterReturns(t) /\ ret'[t]
                /\ regArgs[t].complete_method = n
       /\ \A t \in Threads :
            LookupReturns(t) /\ Looked(t) \notin Keys(melo_jsonrpc_methods) =>
                /\ calls'[t] = calls[t]
                /\ IF HasId(req[t].elems[i[t]])
                   THEN /\ Len(res'[t]) = Len(res[t]) + 1
                        /\ res'[t][Len(res'[t])].hasError
                        /\ res'[t][Len(res'[t])].error.code =
                              MELO_JSONRPC_ERROR_METHOD_NOT_FOUND
                        /\ res'[t][Len(res'[t])].error.message = "Method not found"
                   ELSE res'[t] = res[t]
      ]_vars

\* One thread has returned from unregistering a name, the name is not in
\* the table while another one is, and a request with an id for the name
\* has been answered with Method Not Found.
C7_Witness ==
    \E t, u \in Threads :
        /\ pc[u] = "returned" /\ op[u] = "unregister"
        /\ todo[u].names[1] \notin Keys(melo_jsonrpc_methods)
        /\ melo_jsonrpc_methods.entries # {}
        /\ DispatchedSingle(t) /\ HasId(req[t].elems[1])
        /\ req[t].elems[1].method.s = todo[u].names[1]
        /\ ~out[t].isNull
        /\ out[t].items[1].hasError
        /\ out[t].items[1].error.message = "Method not found"

\* C8: an unregister call (alone or as a step of unregister_methods) for a
\* name that is not in the table changes nothing, and applies no table
\* operation to a table that does not exist.
C8_UnregisterAbsentNoOp ==
    [][\A t \in Threads :
          /\ pc[t] = "unregister_locked"
          /\ pc'[t] # "unregister_locked" \/ crashed'
          /\ Unregistered(t) \notin Keys(melo_jsonrpc_methods)
          => /\ melo_jsonrpc_methods' = melo_jsonrpc_methods
             /\ refcount' = refcount
             /\ ~critical'[t]
             /\ ~crashed'
      ]_vars

----------------------------------------------------------------------------
(***************************************************************************)
(* Properties of the validator.                                            *)
(***************************************************************************)
\* The validator calls that have returned: the operation and what it left.
CallsMade ==
    (IF vpc \in {"get_object", "get_array", "done"}
     THEN {[operation |-> "check", r |-> checkOut]} ELSE {})
    \cup (IF vpc \in {"get_array", "done"}
          THEN {[operation |-> "to_object", r |-> objectOut]} ELSE {})
    \cup (IF vpc = "done"
          THEN {[operation |-> "to_array", r |-> arrayOut]} ELSE {})

Keyed == paramsIn.t = "object"
Positional == paramsIn.t = "array"

\* The value the input has for schema entry k: the member of its name in
\* keyed input, the element at its position in positional input; JAbsent
\* when there is none.
ValueFor(k) ==
    IF Keyed THEN paramsIn.members[schemaIn.entries[k].name.s]
    ELSE IF Positional /\ k <= Len(paramsIn.elems) THEN paramsIn.elems[k]
    ELSE JAbsent

HasValue(k) == ValueFor(k) # JAbsent

\* The entry is required: its flag is true or not given.
Required(k) == schemaIn.entries[k].required \in {JAbsent, JBool(TRUE)}

\* The walk of the call reached entry k: its loop got to index k.
Reached(c, k) == c.r.last >= k

InvalidParams == ErrorNode(MELO_JSONRPC_ERROR_INVALID_PARAMS, "Invalid params")

\* The call failed and reported Invalid Params: the error is in the
\* caller's slot when the slot was empty at the call.
FailedInvalidParams(c) ==
    /\ ~c.r.ret
    /\ c.r.obj.isNull /\ c.r.array.isNull
    /\ errorIn.node.isNull => c.r.error = Slot(InvalidParams)

\* The call succeeded and left the error slot as it was.
Succeeded(c) == c.r.ret /\ c.r.error = errorIn

\* C11: in check, to_object and to_array, for keyed and for positional
\* input, a required schema entry without value that the walk reaches makes
\* the call fail with Invalid Params.
C11_RequiredMissing ==
    Keyed \/ Positional =>
        \A c \in CallsMade : \A k \in 1..Len(schemaIn.entries) :
            Required(k) /\ ~HasValue(k) /\ Reached(c, k) => FailedInvalidParams(c)

\* The three calls have failed with Invalid Params on keyed input that has a
\* value for the first entry and none for the second, required one, whose
\* flag is not given.
C11_Witness ==
    /\ vpc = "done" /\ Keyed /\ errorIn.node.isNull
    /\ Len(schemaIn.entries) = 2
    /\ HasValue(1) /\ ~HasValue(2)
    /\ schemaIn.entries[2].required = JAbsent
    /\ \A c \in CallsMade : Reached(c, 2) /\ c.r.error = Slot(InvalidParams)

\* The input is valid but for parameters it omits, all of them optional, and
\* it omits at least one.
OmitsOptionalOnly ==
    /\ Keyed \/ Positional
    /\ \E k \in 1..Len(schemaIn.entries) : ~HasValue(k)
    /\ \A k \in 1..Len(schemaIn.entries) :
          IF HasValue(k) THEN ValueFor(k).t = schemaIn.entries[k].type.s
          ELSE ~Required(k)

\* The first entry the input has no value for.
FirstOmitted ==
    CHOOSE k \in 1..Len(schemaIn.entries) :
        ~HasValue(k) /\ \A j \in 1..(k - 1) : HasValue(j)

\* C12: input that is valid but for optional parameters it omits is accepted
\* by check, to_object and to_array, keyed and positional, with no error
\* reported; to_array returns the values before the first omitted parameter
\* and nothing for it or after it.
C12_OptionalAbsent ==
    OmitsOptionalOnly =>
        \A c \in CallsMade :
            /\ Succeeded(c)
            /\ c.operation = "to_array" =>
                  c.r.array.elems = [k \in 1..(FirstOmitted - 1) |-> ValueFor(k)]

\* C13: in the three operations and for both input shapes, a value that is
\* present, reached by the walk, and not of the type its schema entry
\* declares makes the call fail with Invalid Params; int and double are two
\* types.
C13_TypeMismatch ==
    Keyed \/ Positional =>
        \A c \in CallsMade : \A k \in 1..Len(schemaIn.entries) :
            /\ HasValue(k) /\ Reached(c, k)
            /\ ValueFor(k).t # schemaIn.entries[k].type.s
            => FailedInvalidParams(c)

\* The three calls have failed with Invalid Params on positional input that
\* has an integer where the schema declares a double.
C13_Witness ==
    /\ vpc = "done" /\ Positional /\ errorIn.node.isNull
    /\ \E k \in 1..Len(schemaIn.entries) :
          /\ ValueFor(k).t = "int" /\ schemaIn.entries[k].type.s = "double"
          /\ \A c \in CallsMade : Reached(c, k)
    /\ \A c \in CallsMade : ~c.r.ret /\ c.r.error = Slot(InvalidParams)

\* C14: when to_object and to_array both succeed on the same schema and
\* params, every element of the array equals the member of the object that
\* has the name of the schema entry at the element's index.
C14_ObjectArrayAgree ==
    vpc = "done" /\ objectOut.ret /\ arrayOut.ret =>
        \A k \in 1..Len(arrayOut.array.elems) :
            arrayOut.array.elems[k] =
                objectOut.obj.members[schemaIn.entries[k].name.s]

----------------------------------------------------------------------------
(***************************************************************************)
(* Properties of the lock, of the schema references and of                 *)
(* melo_jsonrpc_register_methods.                                          *)
(***************************************************************************)
\* C15: a thread that is executing a callback for melo_jsonrpc_parse_node
\* does not hold the registry lock, for a notification and for a request.
C15_NoLockInCallback ==
    \A t \in Threads : pc[t] = "callback" => melo_jsonrpc_mutex # t

\* Two threads are in a callback at once, one for a notification and one for
\* a request with an id, and the lock is free.
C15_Witness ==
    \E t, u \in Threads :
        /\ pc[t] = "callback" /\ ~HasId(req[t].elems[i[t]])
        /\ pc[u] = "callback" /\ HasId(req[u].elems[i[u]])
        /\ melo_jsonrpc_mutex = NoThread

\* C16: while a callback runs, the schema the lookup handed to it has a
\* reference count of at least 1, whatever other threads unregister.
C16_SchemaAlive ==
    \A t \in Threads :
        pc[t] = "callback" /\ cur[t].params # 0 => refcount[cur[t].params] >= 1

\* A callback is running with a schema whose method another thread has
\* unregistered since the lookup: the reference of the lookup is the last.
C16_Witness ==
    \E t, u \in Threads :
        /\ pc[t] = "callback" /\ cur[t].params # 0
        /\ pc[u] = "returned" /\ op[u] = "unregister"
        /\ todo[u].names[1] = Looked(t)
        /\ Looked(t) \notin Keys(melo_jsonrpc_methods)
        /\ refcount[cur[t].params] = 1

\* The step in which melo_jsonrpc_register_methods is done with one entry.
EntryDone(t) ==
    op[t] = "register_methods" /\ many'[t].k = many[t].k + 1

\* That entry and its complete name.
Entry(t) == many[t].methods[many[t].k]
EntryName(t) == many[t].group \o "." \o Entry(t).method

\* The entry has been registered by the step.
EntryRegistered(t) ==
    EntryName(t) \in Keys(melo_jsonrpc_methods') \ Keys(melo_jsonrpc_methods)

\* C17: melo_jsonrpc_register_methods counts the entries it does not
\* register: the count goes up by one with every entry that has not been
\* registered when the loop is done with it, and stays for one that has.
C17_FailureCount ==
    [][\A t \in Threads :
          EntryDone(t) =>
              many'[t].errors =
                  many[t].errors + (IF EntryRegistered(t) THEN 0 ELSE 1)
      ]_vars

\* C18: an entry whose params text does not yield an array, or whose result
\* text does not yield an object, and whose name is free, is registered with
\* its callback and user data, and without params schema when the params
\* text is the one at fault.
C18_BadSchemaRegistered ==
    [][\A t \in Threads :
          /\ EntryDone(t)
          /\ Entry(t).params # "array" \/ Entry(t).result # "object"
          /\ EntryName(t) \notin Keys(melo_jsonrpc_methods)
          => /\ EntryRegistered(t)
             /\ LET m == g_hash_table_lookup(melo_jsonrpc_methods', EntryName(t))
                IN /\ m.callback = Entry(t).callback
                   /\ m.user_data = Entry(t).user_data
                   /\ Entry(t).params # "array" => m.params = 0
      ]_vars

----------------------------------------------------------------------------
(***************************************************************************)
(* Properties of the responses.                                            *)
(***************************************************************************)
\* The codes an error envelope of dispatch may carry: Invalid Request,
\* Method Not Found, or the code of the handler's error.
ResponseErrorCodes ==
    {MELO_JSONRPC_ERROR_INVALID_REQUEST, MELO_JSONRPC_ERROR_METHOD_NOT_FOUND}
    \cup {CallbackError(NoMethod, o).code : o \in {"error", "both"}}

\* The envelope is a response: a result, or an error of these codes.
IsResponse(resp) ==
    /\ ~resp.isNull
    /\ resp.jsonrpc = "2.0"
    /\ resp.hasResult # resp.hasError
    /\ resp.hasResult => ~resp.result.isNull
    /\ resp.hasError => resp.error.code \in ResponseErrorCodes

\* C19: a single request object with an id member yields exactly one response
\* envelope, never no output; and dispatch yields no output only for a
\* request object without id or a batch whose elements all lack an id.
C19_RequestAnswered ==
    \A t \in Threads :
        /\ DispatchedSingle(t) /\ HasId(req[t].elems[1])
           => /\ ~out[t].isNull /\ ~out[t].isArray /\ Len(out[t].items) = 1
              /\ IsResponse(out[t].items[1])
        /\ Dispatched(t) /\ out[t].isNull
           => /\ req[t].root \in {"object", "array"}
              /\ \A j \in 1..Len(req[t].elems) : ~HasId(req[t].elems[j])

\* A request with an id whose handler has set neither a result nor an error
\* has been answered with Method Not Found.
C19_Witness ==
    \E t \in Threads :
        /\ DispatchedSingle(t) /\ HasId(req[t].elems[1])
        /\ Len(calls[t]) = 1
        /\ IsSingleError(out[t], MELO_JSONRPC_ERROR_METHOD_NOT_FOUND,
                         "Method not found", req[t].elems[1].id)

\* What dispatch answers to the call when it is sent alone, with the table
\* tbl and a handler that leaves this outcome; NoResponse for no output.
Alone(node, tbl, outcome) ==
    LET m == lookup_method(tbl, node.method.s)
    IN IF ~EnvelopeAccepted(node)
       THEN melo_jsonrpc_build_error(NullStr, -1,
                MELO_JSONRPC_ERROR_INVALID_REQUEST, "Invalid request")
       ELSE node_after_callback(node,
                CallbackResult(m, IF m.callback = NoCallback THEN "neither"
                                  ELSE outcome),
                CallbackError(m, IF m.callback = NoCallback THEN "neither"
                                 ELSE outcome))

\* The position in the output array of the answer to element j: the number
\* of elements up to j that are not notifications.
Position(elems, j) == Cardinality({k \in 1..j : ~Notification(elems[k])})

\* The element names a method that is not registered.
UnknownMethod(node) ==
    WellFormed(node) /\ node.method.s \notin Keys(melo_jsonrpc_methods)

\* The output array has an error envelope of this code for element j, at the
\* element's position.
ErrorAt(t, j, code, message) ==
    /\ ~Notification(req[t].elems[j])
    /\ Position(req[t].elems, j) <= Len(out[t].items)
    /\ LET resp == out[t].items[Position(req[t].elems, j)]
       IN /\ ~resp.isNull /\ resp.hasError /\ ~resp.hasResult
          /\ resp.error.code = code
          /\ resp.error.message = message

\* C20 as stated: every element of a batch that is malformed or names an
\* unknown method has its own error envelope in the output array.
C20_EveryBadElementAnswered ==
    \A t \in Threads :
        DispatchedBatch(t) =>
            \A j \in 1..Len(req[t].elems) :
                /\ ~WellFormed(req[t].elems[j]) =>
                      ErrorAt(t, j, MELO_JSONRPC_ERROR_INVALID_REQUEST,
                              "Invalid request")
                /\ UnknownMethod(req[t].elems[j]) =>
                      ErrorAt(t, j, MELO_JSONRPC_ERROR_METHOD_NOT_FOUND,
                              "Method not found")

\* C20, amended: every element of a batch is answered as it is when sent
\* alone (for some outcome of its handler), at its position among the
\* answered elements; a malformed element has an Invalid Request envelope
\* there, an element with an id that names an unknown method a Method Not
\* Found envelope, and an element without id that names an unknown method
\* has no envelope, as it has none when sent alone.  (One thread: the table
\* at the return is the table of every lookup.)
C20_ElementsIndependent ==
    \A t \in Threads :
        DispatchedBatch(t) =>
            /\ Len(out[t].items) = Position(req[t].elems, Len(req[t].elems))
            /\ \A j \in 1..Len(req[t].elems) :
                  LET node == req[t].elems[j]
                      alone == {Alone(node, melo_jsonrpc_methods, o) :
                                   o \in CallbackOutcomes}
                  IN /\ IF Notification(node) THEN alone = {NoResponse}
                        ELSE out[t].items[Position(req[t].elems, j)] \in alone
                     /\ ~WellFormed(node) =>
                           ErrorAt(t, j, MELO_JSONRPC_ERROR_INVALID_REQUEST,
                                   "Invalid request")
                     /\ UnknownMethod(node) /\ HasId(node) =>
                           ErrorAt(t, j, MELO_JSONRPC_ERROR_METHOD_NOT_FOUND,
                                   "Method not found")

\* A batch of a request that is answered with a result and a malformed
\* element after it has returned, with both envelopes in this order.
C20_Witness ==
    \E t \in Threads :
        /\ DispatchedBatch(t) /\ Len(req[t].elems) = 2
        /\ HasId(req[t].elems[1]) /\ ~WellFormed(req[t].elems[2])
        /\ Len(out[t].items) = 2
        /\ out[t].items[1].hasResult
        /\ out[t].items[1].id = req[t].elems[1].id
        /\ IsError(out[t].items[2], MELO_JSONRPC_ERROR_INVALID_REQUEST,
                   "Invalid request", JNull)

----------------------------------------------------------------------------
(***************************************************************************)
(* Concurrent registration.                                                *)
(***************************************************************************)
\* Thread t is inside a section that G_LOCK opened and G_UNLOCK has not
\* closed: the places where the table is read or written.
InLockedSection(t) ==
    pc[t] \in {"register_locked", "unregister_locked", "lookup_locked"}

\* Threads t and u are both in a melo_jsonrpc_register_method call for the
\* same complete name.
SameRegistration(t, u) ==
    /\ t # u
    /\ op[t] = "register" /\ op[u] = "register"
    /\ regArgs[t].complete_method = regArgs[u].complete_method

\* The table holds exactly one entry for the name, with this value.
BoundTo(tbl, name, m) ==
    {e \in tbl.entries : e.key = name} = {[key |-> name, m |-> m]}

\* C21: two threads are in register calls for the same name at the same time,
\* the name is free when the first of them gets the lock, and nothing but
\* these two calls touches the name.  The call that gets the lock first
\* returns TRUE and binds the name to its callback, user data and schema; the
\* other call, made while that binding is in the table, returns FALSE and
\* leaves the table as it is; so exactly one succeeds and the name has one
\* entry, the one of the successful call.  At most one thread is inside a
\* locked section at any time, the lock is held by that thread, and the table
\* only changes in the step of a thread that holds the lock.
C21_ConcurrentRegister ==
    [][/\ \A t, u \in Threads :
            InLockedSection(t)' /\ InLockedSection(u)' => t = u
       /\ \A t \in Threads : InLockedSection(t)' => melo_jsonrpc_mutex' = t
       /\ melo_jsonrpc_methods' # melo_jsonrpc_methods =>
            \E t \in Threads : InLockedSection(t) /\ melo_jsonrpc_mutex = t
       /\ \A t, u \in Threads :
            /\ SameRegistration(t, u) /\ RegisterReturns(t)
            /\ pc[u] = "register_lock"
            /\ regArgs[t].complete_method \notin Keys(melo_jsonrpc_methods)
            => /\ ret'[t] = TRUE
               /\ BoundTo(melo_jsonrpc_methods', regArgs[t].complete_method,
                          regArgs[t].m)
       /\ \A t, u \in Threads :
            /\ SameRegistration(t, u) /\ RegisterReturns(t)
            /\ pc[u] = "returned" /\ ret[u]
            /\ BoundTo(melo_jsonrpc_methods, regArgs[u].complete_method,
                       regArgs[u].m)
            => /\ ret'[t] = FALSE
               /\ melo_jsonrpc_methods' = melo_jsonrpc_methods
               /\ BoundTo(melo_jsonrpc_methods', regArgs[u].complete_method,
                          regArgs[u].m)
      ]_vars

\* Both calls for one name have returned, one with TRUE and one with FALSE,
\* they differ in callback, user data and schema, and the name is bound to
\* what the successful call passed.
C21_Witness ==
    \E t, u \in Threads :
        /\ SameRegistration(t, u)
        /\ pc[t] = "returned" /\ pc[u] = "returned"
        /\ ret[t] /\ ~ret[u]
        /\ regArgs[t].m.callback # regArgs[u].m.callback
        /\ regArgs[t].m.user_data # regArgs[u].m.user_data
        /\ regArgs[t].m.params # regArgs[u].m.params
        /\ BoundTo(melo_jsonrpc_methods, regArgs[t].complete_method, regArgs[t].m)

----------------------------------------------------------------------------
(***************************************************************************)
(* Properties of the envelope checks and of the response envelope.         *)
(***************************************************************************)
\* C22: a request whose root is a JSON value other than an object or an
\* array (a string, a number, a boolean, null) yields one Invalid Request
\* envelope with a null id, not an array; no lookup is made and no callback
\* is invoked.
C22_ScalarRoot ==
    \A t \in Threads :
        Dispatched(t) /\ req[t].root = "scalar" =>
            /\ IsSingleError(out[t], MELO_JSONRPC_ERROR_INVALID_REQUEST,
                             "Invalid request", JNull)
            /\ lookups[t] = 0
            /\ calls[t] = <<>>

\* A scalar root has been answered while a method with a callback is
\* registered.
C22_Witness ==
    \E t \in Threads :
        /\ Dispatched(t) /\ req[t].root = "scalar"
        /\ ~out[t].isNull
        /\ \E e \in melo_jsonrpc_methods.entries : e.m.callback # NoCallback

\* C23: a call value (a single request or an element of a batch) that is not
\* an object, whose jsonrpc member is missing or is not the string "2.0",
\* whose method member is missing or is not a string, or whose params member
\* is present and neither an object nor an array, is answered with the
\* Invalid Request error; no callback is invoked for it, and the lookups of
\* the request are those of its other elements, also when its method member
\* names a registered method.
C23_EnvelopeRejected ==
    \A t \in Threads :
        Dispatched(t) /\ HasElements(req[t]) =>
            /\ \A j \in 1..Len(req[t].elems) :
                  ~WellFormed(req[t].elems[j]) =>
                      /\ ErrorAt(t, j, MELO_JSONRPC_ERROR_INVALID_REQUEST,
                                 "Invalid request")
                      /\ \A c \in 1..Len(calls[t]) : calls[t][c].element # j
            /\ lookups[t] =
                  Cardinality({j \in 1..Len(req[t].elems) : WellFormed(req[t].elems[j])})

\* A request object whose only defect is its params member, a number, and
\* whose method names a registered method with a callback has been answered
\* with Invalid Request, without lookup and without callback.
C23_Witness ==
    \E t \in Threads :
        /\ DispatchedSingle(t)
        /\ req[t].elems[1].jsonrpc = JStr("2.0")
        /\ req[t].elems[1].method.t = "string"
        /\ req[t].elems[1].params.t = "int"
        /\ lookup_method(melo_jsonrpc_methods, req[t].elems[1].method.s).callback
              # NoCallback
        /\ IsSingleError(out[t], MELO_JSONRPC_ERROR_INVALID_REQUEST,
                         "Invalid request", JNull)
        /\ lookups[t] = 0 /\ calls[t] = <<>>

\* C24: the envelope that answers a request object with an id member (a
\* single request or an element of a batch) carries that id, also when it is
\* the Invalid Request error for a rejected envelope; an envelope has a null
\* id only when the value it answers is not an object or has no id member.
C24_IdAlwaysEchoed ==
    \A t \in Threads :
        Dispatched(t) /\ HasElements(req[t]) =>
            \A j \in 1..Len(req[t].elems) :
                LET node == req[t].elems[j]
                    p == Position(req[t].elems, j)
                IN /\ HasId(node) =>
                        /\ p <= Len(out[t].items)
                        /\ out[t].items[p].id = node.id
                   /\ /\ ~Notification(node)
                      /\ p <= Len(out[t].items)
                      /\ out[t].items[p].id = JNull
                      => ~HasId(node)

\* The envelope has exactly one of the members result and error, and the
\* member it has is not empty.
OneOfResultError(resp) ==
    /\ resp.hasError # resp.hasResult
    /\ resp.hasError => ~resp.error.isNull /\ resp.result.isNull
    /\ resp.hasResult => ~resp.result.isNull /\ resp.error.isNull

\* C25: every envelope dispatch collects or returns has exactly one of result
\* and error; and when the handler of a request with an id returns with both
\* a result and an error set, the envelope carries the handler's error and
\* no result.
C25_ResultXorError ==
    [][\A t \in Threads :
          /\ \A k \in 1..Len(res'[t]) : OneOfResultError(res'[t][k])
          /\ \A k \in 1..Len(out'[t].items) : OneOfResultError(out'[t].items[k])
          /\ /\ pc[t] = "callback" /\ HasId(req[t].elems[i[t]])
             /\ CallbackReturn(t, "both")
             => LET resp == res'[t][Len(res'[t])]
                IN /\ Len(res'[t]) = Len(res[t]) + 1
                   /\ resp.hasError /\ ~resp.hasResult
                   /\ resp.error = CallbackError(cur[t], "both")
                   /\ resp.result.isNull
      ]_vars

\* A request with an id whose handler set both a result and an error has
\* been answered with the handler's error and without result.
C25_Witness ==
    \E t \in Threads :
        /\ DispatchedSingle(t) /\ HasId(req[t].elems[1])
        /\ Len(calls[t]) = 1
        /\ ~CallbackResult(cur[t], "both").isNull
        /\ out[t].items[1].hasError /\ ~out[t].items[1].hasResult
        /\ out[t].items[1].error = CallbackError(cur[t], "both")

\* The envelope melo_jsonrpc_parse_node has just returned in thread t.
Returned(t) == res'[t][Len(res'[t])]

\* C26: for a call with an id whose method is registered, when the handler
\* returns with neither a result nor an error set, or when the registration
\* has no callback, the answer is the Method Not Found error with the id of
\* the call, the same envelope an unregistered method gets.
C26_DeclinedNotFound ==
    [][\A t \in Threads :
          /\ pc[t] \in {"callback", "lookup_locked"}
          /\ HasId(req[t].elems[i[t]])
          /\ Looked(t) \in Keys(melo_jsonrpc_methods)
          /\ \/ pc[t] = "callback" /\ CallbackReturn(t, "neither")
             \/ /\ LookupReturns(t)
                /\ lookup_method(melo_jsonrpc_methods, Looked(t)).callback = NoCallback
          => /\ Len(res'[t]) = Len(res[t]) + 1
             /\ IsError(Returned(t), MELO_JSONRPC_ERROR_METHOD_NOT_FOUND,
                        "Method not found", req[t].elems[i[t]].id)
             /\ Returned(t) = Alone(req[t].elems[i[t]], NullTable, "neither")
      ]_vars

----------------------------------------------------------------------------
(***************************************************************************)
(* Properties of the validator: schema, absent params and the error slot.  *)
(***************************************************************************)
\* The schema is absent (NULL) or has no entries.
NoSchema == schemaIn.isNull \/ Len(schemaIn.entries) = 0

\* C27: with a schema that is absent or has zero entries, check, to_object
\* and to_array fail whatever the params are (keyed, positional or absent),
\* return no object and no array, and do not report Invalid Params.
C27_NoSchemaFails ==
    NoSchema =>
        \A c \in CallsMade :
            /\ ~c.r.ret
            /\ c.r.obj.isNull /\ c.r.array.isNull
            /\ c.r.error # Slot(InvalidParams)

InvalidRequest == ErrorNode(MELO_JSONRPC_ERROR_INVALID_REQUEST, "Invalid request")

\* The call failed and reported Invalid Request: the error is in the
\* caller's slot when the slot was empty at the call.
FailedInvalidRequest(c) ==
    /\ ~c.r.ret
    /\ c.r.obj.isNull /\ c.r.array.isNull
    /\ errorIn.node.isNull => c.r.error = Slot(InvalidRequest)
    /\ ~errorIn.node.isNull => c.r.error = errorIn

\* C28: with a schema that is present and params that are absent (NULL),
\* check, to_object and to_array fail with Invalid Request, not Invalid
\* Params, when the schema has a required entry, and succeed when it has
\* none.
C28_AbsentParams ==
    ~schemaIn.isNull /\ paramsIn = ParamsNull =>
        \A c \in CallsMade :
            IF \E k \in 1..Len(schemaIn.entries) : Required(k)
            THEN FailedInvalidRequest(c)
            ELSE Succeeded(c)

\* C29: in check, to_object and to_array, a slot that holds an error at the
\* call is left as it is whatever the outcome; a call that succeeds leaves
\* the slot as it is; and a call that fails with an empty slot leaves one
\* error object in it.
C29_ErrorSlotOnce ==
    \A c \in CallsMade :
        /\ ~errorIn.node.isNull => c.r.error = errorIn
        /\ c.r.ret => c.r.error = errorIn
        /\ ~c.r.ret /\ errorIn.node.isNull =>
              /\ c.r.error.given
              /\ c.r.error.node \in {InvalidParams, InvalidRequest}

\* Keyed input has no member for entry k and the entry is not required.
MissingOptional(k) == ~HasValue(k) /\ ~Required(k)

\* Entry k is valid for keyed input: its member has the declared type, or it
\* is missing and the entry is not required.
KeyedEntryValid(k) ==
    IF HasValue(k) THEN ValueFor(k).t = schemaIn.entries[k].type.s
    ELSE ~Required(k)

\* C30: keyed input, and entry k is the first schema entry without member,
\* it is optional, and the members of the entries before it have their
\* declared types.  to_object goes past entry k: it fails with Invalid
\* Params when a later entry is not valid, and otherwise succeeds with every
\* member that is present under its name and none for the missing ones.
\* to_array stops at entry k and succeeds, whatever the later entries and
\* their members are; its array holds the members of entries 1..k-1 in
\* schema order and nothing else.
C30_SkipOrStop ==
    vpc = "done" /\ Keyed =>
        \A k \in 1..Len(schemaIn.entries) :
            /\ MissingOptional(k)
            /\ \A j \in 1..(k - 1) : HasValue(j) /\ KeyedEntryValid(j)
            => /\ objectOut.last > k
               /\ IF \A j \in (k + 1)..Len(schemaIn.entries) : KeyedEntryValid(j)
                  THEN /\ objectOut.ret /\ objectOut.error = errorIn
                       /\ \A j \in 1..Len(schemaIn.entries) :
                             objectOut.obj.members[schemaIn.entries[j].name.s]
                                = ValueFor(j)
                  ELSE /\ ~objectOut.ret /\ objectOut.obj.isNull
                       /\ errorIn.node.isNull =>
                             objectOut.error = Slot(InvalidParams)
               /\ arrayOut.ret /\ arrayOut.error = errorIn
               /\ arrayOut.last = k
               /\ arrayOut.array.elems = [j \in 1..(k - 1) |-> ValueFor(j)]

\* Keyed input without member for the first, optional entry and with a
\* member of the declared type for the second: to_object has returned an
\* object with that member, to_array an empty array.
C30_Witness ==
    /\ vpc = "done" /\ Keyed
    /\ Len(schemaIn.entries) = 2
    /\ MissingOptional(1)
    /\ HasValue(2) /\ KeyedEntryValid(2)
    /\ objectOut.ret
    /\ objectOut.obj.members[schemaIn.entries[2].name.s] = ValueFor(2)
    /\ arrayOut.ret /\ arrayOut.array.elems = <<>>

----------------------------------------------------------------------------
(***************************************************************************)
(* Properties of the validator: positional input, required members and the *)
(* agreement of check and to_object.                                       *)
(***************************************************************************)
\* Positional input has fewer values than the schema has entries, and every
\* value it has is of the type its entry declares.
ShortPositional ==
    /\ Positional
    /\ Len(paramsIn.elems) < Len(schemaIn.entries)
    /\ \A j \in 1..Len(paramsIn.elems) :
          paramsIn.elems[j].t = schemaIn.entries[j].type.s

\* The positions up to n whose entry has this name.
PositionsOf(name, n) == {j \in 1..n : schemaIn.entries[j].name.s = name}

\* The highest number of a set of numbers that is not empty.
Highest(S) == CHOOSE x \in S : \A y \in S : y <= x

\* C31: positional input that is shorter than the schema, in check,
\* to_object and to_array.  When the first entry without positional value is
\* required the call fails with Invalid Params; when it is optional the walk
\* stops at it and the call succeeds with the values converted so far:
\* to_array returns the values in order, to_object each value under the
\* name of its entry, and nothing for the entries that were not reached.
C31_ShortPositional ==
    ShortPositional =>
        LET n == Len(paramsIn.elems)
        IN \A c \in CallsMade :
              IF Required(n + 1)
              THEN FailedInvalidParams(c) /\ c.r.last = n + 1
              ELSE /\ Succeeded(c)
                   /\ c.r.last = n + 1
                   /\ c.operation = "to_array" => c.r.array.elems = paramsIn.elems
                   /\ c.operation = "to_object" =>
                         \A name \in ParamNames :
                             c.r.obj.members[name] =
                                 IF PositionsOf(name, n) = {} THEN JAbsent
                                 ELSE paramsIn.elems[Highest(PositionsOf(name, n))]

\* The three calls have succeeded on one positional value for a schema of
\* two entries whose second entry is optional; to_array has returned that
\* value and to_object has it under the name of the first entry.
C31_Witness ==
    /\ vpc = "done" /\ ShortPositional
    /\ Len(paramsIn.elems) = 1 /\ Len(schemaIn.entries) = 2
    /\ ~Required(2)
    /\ \A c \in CallsMade : c.r.ret
    /\ arrayOut.array.elems = paramsIn.elems
    /\ objectOut.obj.members[schemaIn.entries[1].name.s] = paramsIn.elems[1]

\* The smaller of two numbers.
Smaller(a, b) == IF a <= b THEN a ELSE b

\* The entries a successful walk has handled: all of them for keyed input,
\* those with a positional value for positional input.
Handled ==
    IF Keyed THEN Len(schemaIn.entries)
    ELSE Smaller(Len(paramsIn.elems), Len(schemaIn.entries))

\* C35 as stated: when to_object succeeds on keyed or positional input, the
\* object has a member of the declared type for every required schema entry.
C35_RequiredPresent ==
    /\ vpc \in {"get_array", "done"} /\ objectOut.ret
    /\ Keyed \/ Positional
    => \A k \in 1..Len(schemaIn.entries) :
          Required(k) =>
              LET member == objectOut.obj.members[schemaIn.entries[k].name.s]
              IN member # JAbsent /\ member.t = schemaIn.entries[k].type.s

\* C35, amended: when to_object succeeds on keyed or positional input, the
\* object has, for every required entry the walk handled, a member under the
\* name of the entry, of the type declared by the last handled entry of that
\* name (the entry itself when the names are distinct).  The walk handles
\* every entry of keyed input; on positional input it stops with success at
\* the first optional entry without value, and a required entry after that
\* one has no member in the output.
C35_RequiredHandled ==
    /\ vpc \in {"get_array", "done"} /\ objectOut.ret
    /\ Keyed \/ Positional
    => \A k \in 1..Handled :
          Required(k) =>
              LET name == schemaIn.entries[k].name.s
                  member == objectOut.obj.members[name]
              IN /\ member # JAbsent
                 /\ member.t =
                       schemaIn.entries[Highest(PositionsOf(name, Handled))].type.s

\* to_object has succeeded on one positional value for a schema whose first
\* entry is required and whose second entry is optional; the object has the
\* value under the name of the first entry.
C35_Witness ==
    /\ vpc = "done" /\ Positional /\ objectOut.ret
    /\ Len(paramsIn.elems) = 1 /\ Len(schemaIn.entries) = 2
    /\ Required(1) /\ ~Required(2)
    /\ objectOut.obj.members[schemaIn.entries[1].name.s] = paramsIn.elems[1]

\* C36: for every schema and all keyed or positional params, check succeeds
\* exactly when to_object returns an object, and when they fail they leave
\* the same error in the caller's slot.
C36_CheckAgreesWithObject ==
    /\ vpc \in {"get_array", "done"}
    /\ Keyed \/ Positional
    => /\ checkOut.ret = objectOut.ret
       /\ checkOut.ret = ~objectOut.obj.isNull
       /\ checkOut.error = objectOut.error

----------------------------------------------------------------------------
(***************************************************************************)
(* Properties of the dispatcher and of the registry life cycle.            *)
(***************************************************************************)
\* The invocations made for element j of the request of thread t.
InvocationsOf(t, j) == {c \in 1..Len(calls[t]) : calls[t][c].element = j}

\* The request of thread t has returned and each of its elements has had
\* one invocation when it is well formed and names a method registered with
\* a callback, and none otherwise.
InvokedOnce(t) ==
    Dispatched(t) /\ HasElements(req[t]) =>
        \A j \in 1..Len(req[t].elems) :
            Cardinality(InvocationsOf(t, j)) =
                IF /\ WellFormed(req[t].elems[j])
                   /\ lookup_method(melo_jsonrpc_methods,
                                    req[t].elems[j].method.s).callback # NoCallback
                THEN 1 ELSE 0

\* The envelope is an Invalid Params error.
IsInvalidParams(resp) ==
    ~resp.isNull /\ resp.hasError
    /\ resp.error.code = MELO_JSONRPC_ERROR_INVALID_PARAMS

\* C32: the lookup of a well-formed call whose method is registered with a
\* callback is followed by one invocation of that callback with the method
\* name, the registered schema, the params member of the call as it is
\* (absent included) and the registered user data; callbacks are invoked in
\* no other step; a request that has returned has had exactly one invocation
\* for each such call; and an Invalid Params envelope only appears as the
\* error a callback has set.
C32_NoValidationInDispatch ==
    [][\A t \in Threads :
          /\ /\ LookupReturns(t)
             /\ lookup_method(melo_jsonrpc_methods, Looked(t)).callback # NoCallback
             => LET m == lookup_method(melo_jsonrpc_methods, Looked(t))
                    node == req[t].elems[i[t]]
                IN /\ pc'[t] = "callback"
                   /\ calls'[t] = Append(calls[t],
                         [callback |-> m.callback, method |-> node.method.s,
                          s_params |-> m.params, params |-> node.params,
                          user_data |-> m.user_data, element |-> i[t]])
          /\ Len(calls'[t]) > Len(calls[t]) =>
                LookupReturns(t) /\ Len(calls'[t]) = Len(calls[t]) + 1
          /\ InvokedOnce(t)'
          /\ \A k \in 1..Len(res'[t]) :
                IsInvalidParams(res'[t][k]) /\ k > Len(res[t]) =>
                    /\ pc[t] = "callback"
                    /\ res'[t][k].error = CallbackError(cur[t], "error")
          /\ \A k \in 1..Len(out'[t].items) :
                IsInvalidParams(out'[t].items[k]) =>
                    k <= Len(res'[t]) /\ out'[t].items[k] = res'[t][k]
      ]_vars

\* A request without params for a method registered with a schema has
\* returned: the callback was invoked once, with the schema and with absent
\* params, and its result is the answer.
C32_Witness ==
    \E t \in Threads :
        /\ DispatchedSingle(t) /\ HasId(req[t].elems[1])
        /\ req[t].elems[1].params = JAbsent
        /\ Len(calls[t]) = 1
        /\ calls[t][1].s_params # 0
        /\ calls[t][1].s_params = cur[t].params
        /\ calls[t][1].params = JAbsent
        /\ out[t].items[1].hasResult

\* The table storage exists exactly when it has an entry.
TableIffRegistered ==
    melo_jsonrpc_methods.isNull <=> melo_jsonrpc_methods.entries = {}

\* C34: whenever no thread holds the registry lock, the table exists exactly
\* when a method is registered.  A register call that finds no table returns
\* TRUE and leaves one; an unregister call that removes the last entry
\* leaves none; a register call that fails and an unregister call for a name
\* that is not registered leave the table as it is.
C34_TableIffRegistered ==
    [][/\ melo_jsonrpc_mutex = NoThread => TableIffRegistered
       /\ melo_jsonrpc_mutex' = NoThread => TableIffRegistered'
       /\ \A t \in Threads :
             /\ RegisterReturns(t) /\ melo_jsonrpc_methods.isNull =>
                   ret'[t] /\ ~melo_jsonrpc_methods'.isNull
             /\ RegisterReturns(t) /\ ~ret'[t] =>
                   melo_jsonrpc_methods' = melo_jsonrpc_methods
             /\ /\ UnregisterReturns(t)
                /\ Keys(melo_jsonrpc_methods) = {Unregistered(t)}
                => melo_jsonrpc_methods' = NullTable
             /\ /\ UnregisterReturns(t)
                /\ Unregistered(t) \notin Keys(melo_jsonrpc_methods)
                => melo_jsonrpc_methods' = melo_jsonrpc_methods
      ]_vars

\* One thread has registered a name into a table it created and the other
\* has unregistered that name from a table that existed: no thread holds
\* the lock and there is no table.
C34_Witness ==
    \E t, u \in Threads :
        /\ t # u
        /\ pc[t] = "returned" /\ op[t] = "unregister" /\ ~critical[t]
        /\ pc[u] = "returned" /\ op[u] = "register" /\ ret[u]
        /\ todo[t].names = <<regArgs[u].complete_method>>
        /\ melo_jsonrpc_mutex = NoThread
        /\ melo_jsonrpc_methods = NullTable

\* Thread u has returned from a call that unregistered the name and the name
\* has not been registered since.
UnregisterReturned(u, name) ==
    /\ pc[u] = "returned"
    /\ op[u] \in {"unregister", "unregister_methods"}
    /\ \E k \in 1..Len(todo[u].names) : todo[u].names[k] = name
    /\ name \notin Keys(melo_jsonrpc_methods)

\* The step in which the callback invoked by thread t runs to its end: the
\* state "callback" is melo_jsonrpc_parse_node from G_UNLOCK to the return
\* of the callback it calls with the pointers copied under the lock.
CallbackRuns(t) == pc[t] = "callback" /\ pc'[t] # "callback"

\* C37: once a call that unregisters a name has returned, no dispatch runs
\* the callback of that registration with its user data, whenever the
\* dispatch has looked the name up.
C37_NoCallbackAfterUnregister ==
    [][\A t, u \in Threads :
          t # u /\ CallbackRuns(t) => ~UnregisterReturned(u, Looked(t))
      ]_vars

\* The entries the table holds for the name.
EntriesOf(tbl, name) == {e \in tbl.entries : e.key = name}

\* C40: a register call that finds no table, at the start or after the last
\* method has been unregistered, returns TRUE and leaves a table whose only
\* entry binds the name to the callback, user data and schema it was given;
\* the entry of a name changes only when a register call binds the name,
\* which was free, to what it was given, or when an unregister call removes
\* it; and a lookup takes the callback, user data and schema of the entry
\* the table holds at that time, which are the ones the callback is invoked
\* with.  So a call never reaches a registration that has been removed
\* before its lookup, however many times names are registered and
\* unregistered.
C40_RegisterAfterTeardown ==
    [][/\ \A t \in Threads :
             /\ RegisterReturns(t) /\ melo_jsonrpc_methods.isNull =>
                   /\ ret'[t]
                   /\ melo_jsonrpc_methods'.entries =
                         {[key |-> regArgs[t].complete_method, m |-> regArgs[t].m]}
             /\ LookupReturns(t) =>
                   LET m == g_hash_table_lookup(melo_jsonrpc_methods, Looked(t))
                   IN /\ cur'[t] = m
                      /\ m.callback # NoCallback =>
                            LET c == calls'[t][Len(calls'[t])]
                            IN /\ Len(calls'[t]) = Len(calls[t]) + 1
                               /\ c.callback = m.callback
                               /\ c.user_data = m.user_data
                               /\ c.s_params = m.params
       /\ \A name \in Keys(melo_jsonrpc_methods) \cup Keys(melo_jsonrpc_methods') :
             EntriesOf(melo_jsonrpc_methods', name) # EntriesOf(melo_jsonrpc_methods, name)
             => \E t \in Threads :
                   \/ /\ RegisterReturns(t) /\ ret'[t]
                      /\ regArgs[t].complete_method = name
                      /\ EntriesOf(melo_jsonrpc_methods, name) = {}
                      /\ BoundTo(melo_jsonrpc_methods', name, regArgs[t].m)
                   \/ /\ UnregisterReturns(t) /\ Unregistered(t) = name
                      /\ EntriesOf(melo_jsonrpc_methods', name) = {}
      ]_vars

\* A batch of two calls has returned.  The name of the first call was
\* registered at its lookup and is not any more; the other thread has then
\* registered the name of the second call, which was free, so that it found
\* no table; the second call reached that registration.
C40_Witness ==
    \E t, u \in Threads :
        /\ t # u
        /\ DispatchedBatch(t) /\ Len(calls[t]) = 2
        /\ calls[t][1].element = 1 /\ calls[t][2].element = 2
        /\ calls[t][1].method \notin Keys(melo_jsonrpc_methods)
        /\ Keys(melo_jsonrpc_methods) = {calls[t][2].method}
        /\ pc[u] = "returned" /\ op[u] = "register" /\ ret[u]
        /\ regArgs[u].complete_method = calls[t][2].method
        /\ regArgs[u].m.callback = calls[t][2].callback
        /\ regArgs[u].m.user_data = calls[t][2].user_data
        /\ regArgs[u].m.params = calls[t][2].s_params
        /\ BoundTo(melo_jsonrpc_methods, calls[t][2].method, regArgs[u].m)

\* No call is in progress.
AllIdle == \A t \in Threads : pc[t] = "idle"

\* The references the table holds on schema s.
TableReferences(s) ==
    Cardinality({e \in melo_jsonrpc_methods.entries : e.m.params = s})

\* C38: every reference a lookup takes on a schema is released by the time
\* the call returns, whether or not the registration has a callback: when no
\* call is in progress, the references on a schema are those of the table,
\* and a schema whose method has been unregistered has none and is freed.
C38_SchemaReleased ==
    AllIdle => \A s \in Schemas : refcount[s] = TableReferences(s)

\* Thread t waits in G_LOCK.
RequestsLock(t) == pc[t] \in {"register_lock", "unregister_lock", "lookup_lock"}

LockProgressUnlessAborted ==
    \A t \in Threads :
        /\ RequestsLock(t) ~> (melo_jsonrpc_mutex = t \/ crashed)
        /\ melo_jsonrpc_mutex = t ~> (melo_jsonrpc_mutex # t \/ crashed)

\* Thread t is in a callback, or in a register or unregister call the
\* callback has made.
InCallback(t) ==
    /\ op[t] = "parse_request"
    /\ pc[t] \in {"callback", "callback_after", "register_lock", "register_locked",
                  "unregister_lock", "unregister_locked"}

\* No thread waits in G_LOCK for a lock it holds itself, and the schema a
\* callback has been given has a reference.
CallbackSafe ==
    \A t \in Threads :
        /\ RequestsLock(t) => melo_jsonrpc_mutex # t
        /\ InCallback(t) /\ cur[t].params # 0 => refcount[cur[t].params] >= 1

\* C39: a callback may call register or unregister, also for the method
\* being dispatched.  The lock is not held by the thread when the call
\* requests it; the call returns into the callback; the schema the callback
\* was given keeps a reference until the callback returns, also when its
\* method has been unregistered; and when the callback returns, the call
\* with an id is answered with the result or the error the callback has set.
C39_CallbackMayRegister ==
    [][/\ CallbackSafe /\ CallbackSafe'
       /\ \A t \in Threads :
             /\ /\ op[t] = "parse_request"
                /\ RegisterReturns(t) \/ UnregisterReturns(t)
                => pc'[t] = "callback_after" /\ melo_jsonrpc_mutex' = NoThread
             /\ pc[t] = "callback_after" /\ HasId(req[t].elems[i[t]]) =>
                   /\ CallbackReturn(t, "result") =>
                         /\ Len(res'[t]) = Len(res[t]) + 1
                         /\ Returned(t).hasResult /\ ~Returned(t).hasError
                         /\ Returned(t).result = CallbackResult(cur[t], "result")
                   /\ CallbackReturn(t, "error") =>
                         /\ Len(res'[t]) = Len(res[t]) + 1
                         /\ Returned(t).hasError /\ ~Returned(t).hasResult
                         /\ Returned(t).error = CallbackError(cur[t], "error")
      ]_vars

\* A request has been answered with the result of a callback that has
\* unregistered the method it was called for, and was given a schema.
C39_Witness ==
    \E t \in Threads :
        /\ DispatchedSingle(t) /\ HasId(req[t].elems[1])
        /\ Len(calls[t]) = 1 /\ calls[t][1].s_params # 0
        /\ todo[t].names = <<calls[t][1].method>>
        /\ calls[t][1].method \notin Keys(melo_jsonrpc_methods)
        /\ ~critical[t]
        /\ out[t].items[1].hasResult
        /\ out[t].items[1].result = CallbackResult(cur[t], "result")

=============================================================================
